---------------------------- MODULE Spec2Model ----------------------------
(***************************************************************************)
(* A model of the EduWiki WMD parser (src/js/wmd-parser.js).               *)
(*                                                                         *)
(* Text is a sequence of characters, each a one-character string; the NUL  *)
(* character U+0000 is written "NUL" and the backtick "BACKTICK".  Markup  *)
(* that the parser itself generates (a tag, a fixed attribute string, a    *)
(* template-literal fragment) is one element holding the whole fragment,   *)
(* such as "<strong>": it contains none of the characters the later        *)
(* regular expressions look for, so treating it as one opaque character    *)
(* changes no match, and it keeps generated markup apart from characters   *)
(* that come from the document.  HTML entities produced by escapeHtml are  *)
(* kept character by character.                                            *)
(***************************************************************************)
EXTENDS Integers, Sequences, FiniteSets, TLC

VARIABLES
    pc,              \* position of the running call
    source,          \* the argument of the running call (never assigned)
    text,            \* parseInline: the local `text`
    slots,           \* parseInline: the local `slots`
    lines,           \* parseFrontmatter / parseBlocks: the local `lines`
    i,               \* parseFrontmatter / parseBlocks: the cursor `i` (0-based)
    meta,            \* parseFrontmatter: the local `meta`
    body,            \* the body returned by parseFrontmatter
    paragraphLines,  \* parseBlocks: the local `paragraphLines`
    output,          \* parseBlocks: the local `output`
    html,            \* the value returned by parseBlocks / parseInline
    branch,          \* history: the branch the last loop iteration took
    starts,          \* history: for each element of output, the line
                     \*   (from 0) on which the block began
    paraStart,       \* history: the line on which the pending paragraph
                     \*   began, -1 when none is pending
    net,             \* page scripts: the state of each fetch in flight
    timers,          \* page scripts: the pending setTimeout callbacks
    dom,             \* page scripts: the part of the document they touch
    locals,          \* page scripts: the locals of the running function
                     \*   and of its closures
    settled,         \* page scripts: the promise of the running async
                     \*   function, "none" for a synchronous one
    trace            \* history: the steps of the page scripts, in order

\* the variables of the page scripts, which the parser never touches
pageVars == <<net, timers, dom, locals, settled, trace>>

\* the variables of the parser, which the page scripts never touch
parserVars == <<source, text, slots, lines, i, meta, body, paragraphLines,
                output, html, branch, starts, paraStart>>

vars == <<pc, parserVars, pageVars>>

\* no page script has run
PageIdle ==
    /\ net = <<>> /\ timers = <<>> /\ dom = <<>> /\ locals = <<>>
    /\ settled = "none" /\ trace = <<>>

-----------------------------------------------------------------------------
(* Characters and character classes of the regular expressions.            *)

NUL == "NUL"
\* the backtick character, which a TLA+ string cannot hold
BT == "BACKTICK"
NL == "\n"

\* String.prototype.trim and \s: the white space the model's texts can hold
WhiteSpace == {" ", "\t", "\r", NL}

DigitChars == <<"0", "1", "2", "3", "4", "5", "6", "7", "8", "9">>

\* \d
Digit == {DigitChars[k] : k \in 1..10}

\* \w  = [A-Za-z0-9_]
WordChar ==
    Digit \cup {"_"} \cup
    {"a", "b", "c", "d", "e", "f", "g", "h", "i", "j", "k", "l", "m", "n",
     "o", "p", "q", "r", "s", "t", "u", "v", "w", "x", "y", "z"} \cup
    {"A", "B", "C", "D", "E", "F", "G", "H", "I", "J", "K", "L", "M", "N",
     "O", "P", "Q", "R", "S", "T", "U", "V", "W", "X", "Y", "Z"}

-----------------------------------------------------------------------------
(* String primitives.                                                      *)

RECURSIVE SkipNot(_, _, _)
\* the first index >= p whose character is in Stop, or Len(s)+1:
\* the end of a greedy negated class [^...]+ starting at p
SkipNot(s, p, Stop) ==
    IF p > Len(s) \/ s[p] \in Stop THEN p ELSE SkipNot(s, p + 1, Stop)

RECURSIVE SkipIn(_, _, _)
\* the first index >= p whose character is not in Class, or Len(s)+1
SkipIn(s, p, Class) ==
    IF p > Len(s) \/ s[p] \notin Class THEN p ELSE SkipIn(s, p + 1, Class)

RECURSIVE SkipBackIn(_, _, _)
\* the last index <= p whose character is not in Class, or 0
SkipBackIn(s, p, Class) ==
    IF p < 1 \/ s[p] \notin Class THEN p ELSE SkipBackIn(s, p - 1, Class)

\* String.prototype.trim
Trim(s) ==
    LET a == SkipIn(s, 1, WhiteSpace)
        b == SkipBackIn(s, Len(s), WhiteSpace)
    IN  IF a > b THEN <<>> ELSE SubSeq(s, a, b)

\* String.prototype.startsWith
StartsWith(s, pre) ==
    Len(pre) <= Len(s) /\ SubSeq(s, 1, Len(pre)) = pre

\* String.prototype.endsWith
EndsWith(s, suf) ==
    Len(suf) <= Len(s) /\ SubSeq(s, Len(s) - Len(suf) + 1, Len(s)) = suf

\* String.prototype.slice(n) with n >= 0 (n is 0-based)
Slice(s, n) == IF n >= Len(s) THEN <<>> ELSE SubSeq(s, n + 1, Len(s))

\* String.prototype.indexOf for one character: 0-based, -1 when absent
IndexOf(s, c) ==
    LET p == SkipNot(s, 1, {c}) IN IF p > Len(s) THEN -1 ELSE p - 1

RECURSIVE SplitFrom(_, _, _)
SplitFrom(s, p, c) ==
    LET q == SkipNot(s, p, {c})
    IN  IF q > Len(s) THEN <<SubSeq(s, p, Len(s))>>
        ELSE <<SubSeq(s, p, q - 1)>> \o SplitFrom(s, q + 1, c)

\* Split that drops the empty piece after a separator that ends the text
SplitNoTrailing(s, c) ==
    IF s # <<>> /\ s[Len(s)] = c THEN SplitFrom(SubSeq(s, 1, Len(s) - 1), 1, c)
    ELSE SplitFrom(s, 1, c)

\* String.prototype.split on a one-character separator: never empty,
\* "" splits to one empty piece
Split(s, c) == SplitFrom(s, 1, c)

RECURSIVE Join(_, _)
\* Array.prototype.join with separator sep (a text)
Join(parts, sep) ==
    IF parts = <<>> THEN <<>>
    ELSE IF Len(parts) = 1 THEN parts[1]
    ELSE parts[1] \o sep \o Join(Tail(parts), sep)

RECURSIVE Concat(_)
\* Array.prototype.join('')
Concat(parts) ==
    IF parts = <<>> THEN <<>> ELSE parts[1] \o Concat(Tail(parts))

RECURSIVE NatToStr(_)
\* the decimal digits of a number, as template literals print it
NatToStr(n) ==
    IF n < 10 THEN <<DigitChars[n + 1]>>
    ELSE NatToStr(n \div 10) \o <<DigitChars[(n % 10) + 1]>>

DigitVal(c) == CHOOSE d \in 0..9 : DigitChars[d + 1] = c

RECURSIVE StrToNat(_)
\* unary plus on a string of digits
StrToNat(ds) ==
    IF ds = <<>> THEN 0
    ELSE 10 * StrToNat(SubSeq(ds, 1, Len(ds) - 1)) + DigitVal(ds[Len(ds)])

RECURSIVE ReplaceChar(_, _, _)
\* s.replace(/c/g, rep) for one character c
ReplaceChar(s, c, rep) ==
    IF s = <<>> THEN <<>>
    ELSE (IF s[1] = c THEN rep ELSE <<s[1]>>) \o ReplaceChar(Tail(s), c, rep)

-----------------------------------------------------------------------------
(* Utilities.                                                              *)

\* escapeHtml with the ampersand replaced last instead of first
EscapeHtmlAmpLast(s) ==
    LET a == ReplaceChar(s, "<", <<"&", "l", "t", ";">>)
        b == ReplaceChar(a, ">", <<"&", "g", "t", ";">>)
        c == ReplaceChar(b, "\"", <<"&", "q", "u", "o", "t", ";">>)
        d == ReplaceChar(c, "'", <<"&", "#", "3", "9", ";">>)
    IN  ReplaceChar(d, "&", <<"&", "a", "m", "p", ";">>)

escapeHtml(s) ==
    LET a == ReplaceChar(s, "&", <<"&", "a", "m", "p", ";">>)
        b == ReplaceChar(a, "<", <<"&", "l", "t", ";">>)
        c == ReplaceChar(b, ">", <<"&", "g", "t", ";">>)
        d == ReplaceChar(c, "\"", <<"&", "q", "u", "o", "t", ";">>)
    IN  ReplaceChar(d, "'", <<"&", "#", "3", "9", ";">>)

-----------------------------------------------------------------------------
(* Inline parser: parseInline, one operator per replace call.              *)

\* the placeholder `\x00${i}\x00`
Placeholder(n) == <<NUL>> \o NatToStr(n) \o <<NUL>>

\* k copies of character c start at p
HasRun(s, p, c, k) ==
    p + k - 1 <= Len(s) /\ \A j \in 0..(k - 1) : s[p + j] = c

\* A match of  c{k}([^c\n]+)c{k}  starting at p: the index of its last
\* character, or 0 when there is no match at p.  The class excludes c, so
\* the greedy run ends at the next c or newline and cannot back off.
SpanEnd(s, p, c, k) ==
    IF ~HasRun(s, p, c, k) THEN 0
    ELSE LET q == SkipNot(s, p + k, {c, NL})
         IN  IF q > p + k /\ HasRun(s, q, c, k) THEN q + k - 1 ELSE 0

RECURSIVE ProtectCodeFrom(_, _, _)
ProtectCodeFrom(s, p, sl) ==
    IF p > Len(s) THEN [text |-> <<>>, slots |-> sl]
    ELSE LET e == SpanEnd(s, p, BT, 1)
         IN  IF e = 0
             THEN LET r == ProtectCodeFrom(s, p + 1, sl)
                  IN  [text |-> <<s[p]>> \o r.text, slots |-> r.slots]
             ELSE LET code == SubSeq(s, p + 1, e - 1)
                      r == ProtectCodeFrom(s, e + 1,
                             Append(sl, <<"<code>">> \o escapeHtml(code)
                                          \o <<"</code>">>))
                  IN  [text |-> Placeholder(Len(sl)) \o r.text,
                       slots |-> r.slots]

\* text.replace(/`([^`\n]+)`/g, ...): the text and the slots after it
ProtectCode(s, sl) == ProtectCodeFrom(s, 1, sl)

RECURSIVE ProtectMathFrom(_, _, _)
ProtectMathFrom(s, p, sl) ==
    IF p > Len(s) THEN [text |-> <<>>, slots |-> sl]
    ELSE LET e == SpanEnd(s, p, "$", 1)
         IN  IF e = 0
             THEN LET r == ProtectMathFrom(s, p + 1, sl)
                  IN  [text |-> <<s[p]>> \o r.text, slots |-> r.slots]
             ELSE LET r == ProtectMathFrom(s, e + 1,
                             Append(sl, SubSeq(s, p, e)))
                  IN  [text |-> Placeholder(Len(sl)) \o r.text,
                       slots |-> r.slots]

\* text.replace(/\$([^$\n]+)\$/g, ...): the text and the slots after it
ProtectMath(s, sl) == ProtectMathFrom(s, 1, sl)

RECURSIVE ReplaceDelim(_, _, _, _, _, _)
\* s.replace(/c{k}([^c\n]+)c{k}/g, open + '$1' + close), scanning from p
ReplaceDelim(s, p, c, k, open, close) ==
    IF p > Len(s) THEN <<>>
    ELSE LET e == SpanEnd(s, p, c, k)
         IN  IF e = 0
             THEN <<s[p]>> \o ReplaceDelim(s, p + 1, c, k, open, close)
             ELSE <<open>> \o SubSeq(s, p + k, e - k) \o <<close>>
                    \o ReplaceDelim(s, e + 1, c, k, open, close)

\* parseInline without its bold-italic step
BoldItalicSkipped(s) == s

\* /\*\*\*([^*\n]+)\*\*\*/g
BoldItalic(s) ==
    ReplaceDelim(s, 1, "*", 3, "<strong><em>", "</em></strong>")

\* /\*\*([^*\n]+)\*\*/g
Bold(s) == ReplaceDelim(s, 1, "*", 2, "<strong>", "</strong>")

\* an italic step that closes an opening asterisk at the end of the text
ItalicUnclosed(s) ==
    IF s # <<>> /\ s[1] = "*" /\ (Len(s) = 1 \/ s[2] # "*")
    THEN <<"<em>">> \o Tail(s) \o <<"</em>">>
    ELSE s

\* /\*([^*\n]+)\*/g
Italic(s) == ReplaceDelim(s, 1, "*", 1, "<em>", "</em>")

\* /~~([^~\n]+)~~/g
Strike(s) == ReplaceDelim(s, 1, "~", 2, "<del>", "</del>")

\* the scheme test without its optional s
IsExternalHttpOnly(href) ==
    StartsWith(href, <<"h", "t", "t", "p", ":", "/", "/">>)

\* /^https?:\/\//.test(href)
IsExternal(href) ==
    \/ StartsWith(href, <<"h", "t", "t", "p", ":", "/", "/">>)
    \/ StartsWith(href, <<"h", "t", "t", "p", "s", ":", "/", "/">>)

\* A match of  \[([^\]\n]+)\]\(([^)\n]+)\)  starting at p, as
\* [textEnd, hrefEnd] (the indices of "]" and of ")"), or <<>>
LinkAt(s, p) ==
    IF p > Len(s) \/ s[p] # "[" THEN <<>>
    ELSE LET q == SkipNot(s, p + 1, {"]", NL})
         IN  IF ~(q > p + 1 /\ q + 1 <= Len(s) /\ s[q] = "]" /\ s[q + 1] = "(")
             THEN <<>>
             ELSE LET r == SkipNot(s, q + 2, {")", NL})
                  IN  IF r > q + 2 /\ r <= Len(s) /\ s[r] = ")"
                      THEN <<q, r>> ELSE <<>>

RECURSIVE LinksFrom(_, _)
LinksFrom(s, p) ==
    IF p > Len(s) THEN <<>>
    ELSE LET m == LinkAt(s, p)
         IN  IF m = <<>> THEN <<s[p]>> \o LinksFrom(s, p + 1)
             ELSE LET linkText == SubSeq(s, p + 1, m[1] - 1)
                      href == SubSeq(s, m[1] + 2, m[2] - 1)
                  IN  <<"<a href=\"">> \o href
                        \o <<IF IsExternal(href)
                             THEN "\" target=\"_blank\" rel=\"noopener noreferrer\">"
                             ELSE "\">">>
                        \o linkText \o <<"</a>">> \o LinksFrom(s, m[2] + 1)

\* text.replace(/\[([^\]\n]+)\]\(([^)\n]+)\)/g, ...)
Links(s) == LinksFrom(s, 1)

RECURSIVE RestoreFrom(_, _, _)
RestoreFrom(s, p, sl) ==
    IF p > Len(s) THEN <<>>
    ELSE LET q == IF s[p] = NUL THEN SkipIn(s, p + 1, Digit) ELSE 0
         IN  IF q > p + 1 /\ q <= Len(s) /\ s[q] = NUL
             THEN LET idx == StrToNat(SubSeq(s, p + 1, q - 1))
                  IN  (IF idx < Len(sl) THEN sl[idx + 1] ELSE <<"undefined">>)
                        \o RestoreFrom(s, q + 1, sl)
             ELSE <<s[p]>> \o RestoreFrom(s, p + 1, sl)

\* text.replace(/\x00(\d+)\x00/g, (_, idx) => slots[+idx]); a slot that
\* does not exist prints as "undefined"
Restore(s, sl) == RestoreFrom(s, 1, sl)

\* a slot store that holds the slot of an earlier call
LeakedSlots == <<<<"<code>", "s", "</code>">>>>

\* const slots = []: each call of parseInline has a store of its own
NewSlots == <<>>

\* parseInline as a function
parseInline(t) ==
    LET c == ProtectCode(t, NewSlots)
        m == ProtectMath(c.text, c.slots)
    IN  Restore(Links(Strike(Italic(Bold(BoldItalic(m.text))))), m.slots)

-----------------------------------------------------------------------------
(* Frontmatter parser: parseFrontmatter.                                   *)

\* lines[i] of the source, i counted from 0
Line(ls, n) == ls[n + 1]

\* the run a greedy (.*) or (.+) takes from p: up to a line terminator
DotStar(s, p) == SubSeq(s, p, SkipNot(s, p, {"\r", NL}) - 1)

Dashes == <<"-", "-", "-">>
TagsKey == <<"t", "a", "g", "s">>
TrueStr == <<"t", "r", "u", "e">>
FalseStr == <<"f", "a", "l", "s", "e">>
ProtoKey == <<"_", "_", "p", "r", "o", "t", "o", "_", "_">>

\* lines[i].match(/^(\w+):\s*(.*)/): the index of the colon, 0 for no match
FrontmatterMatch(line) ==
    LET k == SkipIn(line, 1, WordChar)
    IN  IF k > 1 /\ k <= Len(line) /\ line[k] = ":" THEN k ELSE 0

\* m[1].trim()
FrontmatterKey(line) == Trim(SubSeq(line, 1, FrontmatterMatch(line) - 1))

\* m[2].trim()
FrontmatterVal(line) ==
    Trim(DotStar(line, SkipIn(line, FrontmatterMatch(line) + 1, WhiteSpace)))

RECURSIVE DropEmpty(_)
\* .filter(Boolean) on an array of strings
DropEmpty(parts) ==
    IF parts = <<>> THEN <<>>
    ELSE (IF parts[1] = <<>> THEN <<>> ELSE <<parts[1]>>)
           \o DropEmpty(Tail(parts))

\* .map(t => t.trim())
TrimAll(parts) == [k \in 1..Len(parts) |-> Trim(parts[k])]

\* val.split(',').map(t => t.trim()).filter(Boolean)
SplitTags(val) == DropEmpty(TrimAll(Split(val, ",")))

\* Coerce with true and false read whatever the case of their first letter
CoerceAnyCase(key, val) ==
    IF key = TagsKey THEN [t |-> "list", v |-> SplitTags(val)]
    ELSE IF val \in {TrueStr, <<"T", "r", "u", "e">>}
         THEN [t |-> "bool", v |-> <<TrueStr>>]
    ELSE IF val \in {FalseStr, <<"F", "a", "l", "s", "e">>}
         THEN [t |-> "bool", v |-> <<FalseStr>>]
    ELSE [t |-> "str", v |-> <<val>>]

\* The value stored for a key/value pair.  A value is a record [t, v]:
\* t is its JavaScript type ("list", "bool" or "str") and v the list of
\* strings it holds (one string for a boolean or a string).
Coerce(key, val) ==
    IF key = TagsKey THEN [t |-> "list", v |-> SplitTags(val)]
    ELSE IF val = TrueStr THEN [t |-> "bool", v |-> <<TrueStr>>]
    ELSE IF val = FalseStr THEN [t |-> "bool", v |-> <<FalseStr>>]
    ELSE [t |-> "str", v |-> <<val>>]

\* meta[key] = value on the plain object `meta = {}`: the metadata is the
\* object's own properties, and an assignment of a string or a boolean to
\* __proto__ goes to the setter inherited from Object.prototype, which
\* ignores it.
SetMeta(m, key, value) ==
    IF key = ProtoKey THEN m
    ELSE [k \in DOMAIN m \cup {key} |-> IF k = key THEN value ELSE m[k]]

\* the body of the while loop for one line
RecordLine(m, line) ==
    IF FrontmatterMatch(line) = 0 THEN m
    ELSE SetMeta(m, FrontmatterKey(line),
                 Coerce(FrontmatterKey(line), FrontmatterVal(line)))

\* lines[0] && lines[0].trim() === '---'
HasFrontmatter(ls) == ls[1] # <<>> /\ Trim(ls[1]) = Dashes

\* the while condition
Scanning(ls, n) == n < Len(ls) /\ Trim(Line(ls, n)) # Dashes

EmptyMeta == [k \in {} |-> [t |-> "str", v |-> <<>>]]

RECURSIVE ScanFrontmatter(_, _, _)
\* the while loop from cursor n: the metadata and the cursor after it
ScanFrontmatter(ls, n, m) ==
    IF Scanning(ls, n)
    THEN ScanFrontmatter(ls, n + 1, RecordLine(m, Line(ls, n)))
    ELSE [meta |-> m, i |-> n]

\* the body taken from the line before the cursor
BodyFromCloser(ls, n) ==
    Join(IF n > Len(ls) THEN <<>>
         ELSE SubSeq(ls, IF n = 0 THEN 1 ELSE n, Len(ls)), <<NL>>)

\* lines.slice(i).join('\n')
BodyFrom(ls, n) ==
    Join(IF n >= Len(ls) THEN <<>> ELSE SubSeq(ls, n + 1, Len(ls)), <<NL>>)

\* parseFrontmatter as a function
parseFrontmatter(src) ==
    LET ls == Split(src, NL)
    IN  IF HasFrontmatter(ls)
        THEN LET r == ScanFrontmatter(ls, 1, EmptyMeta)
             IN  [meta |-> r.meta, body |-> BodyFrom(ls, r.i + 1)]
        ELSE [meta |-> EmptyMeta, body |-> BodyFrom(ls, 0)]

-----------------------------------------------------------------------------
(* Block renderers.                                                        *)

\* .map(...) with parseInline or a wrapper, written per use
MapSeq(parts, F(_)) == [k \in 1..Len(parts) |-> F(parts[k])]

\* Array.prototype.filter
FilterSeq(parts, P(_)) == SelectSeq(parts, P)

\* the separator test without the colon
IsSeparatorRowNoColon(t) ==
    /\ Len(t) >= 3
    /\ t[1] = "|"
    /\ t[Len(t)] = "|"
    /\ \A k \in 2..(Len(t) - 1) : t[k] \in WhiteSpace \cup {"-", "|"}

\* /^\|[\s\-|:]+\|$/.test(t): a separator row
IsSeparatorRow(t) ==
    /\ Len(t) >= 3
    /\ t[1] = "|"
    /\ t[Len(t)] = "|"
    /\ \A k \in 2..(Len(t) - 1) : t[k] \in WhiteSpace \cup {"-", "|", ":"}

\* line.split('|').map(c => c.trim()).filter(Boolean)
parseCols(line) == DropEmpty(TrimAll(Split(line, "|")))

renderSummaryBlock(bodyHtml) ==
    <<"<div class=\"wiki-summary\" role=\"note\"><strong>Summary</strong>">>
      \o bodyHtml \o <<"</div>">>

renderNoticeBlock(bodyHtml) ==
    <<"<div class=\"admin-notice\" role=\"note\">">> \o bodyHtml \o <<"</div>">>

QuickFacts == <<"Q", "u", "i", "c", "k", " ", "F", "a", "c", "t", "s">>

\* the row test of the infobox without the separator test
IsInfoboxRowAnyPipe(l) == StartsWith(Trim(l), <<"|">>)

IsInfoboxRow(l) == StartsWith(Trim(l), <<"|">>) /\ ~IsSeparatorRow(Trim(l))

InfoboxRow(l) ==
    LET cols == parseCols(l)
    IN  IF Len(cols) >= 2
        THEN <<"<tr><td>">> \o parseInline(cols[1]) \o <<"</td><td>">>
               \o parseInline(cols[2]) \o <<"</td></tr>">>
        ELSE <<>>

renderInfoboxBlock(params, rawBody) ==
    LET title == IF Trim(params) # <<>> THEN Trim(params) ELSE QuickFacts
        rows == Join(DropEmpty(MapSeq(
                       FilterSeq(Split(Trim(rawBody), NL), IsInfoboxRow),
                       InfoboxRow)), <<NL>>)
    IN  <<"<div class=\"infobox\" aria-label=\"Quick facts\">\n  <div class=\"infobox-title\">">>
          \o escapeHtml(title) \o <<"</div>\n  <table>">> \o rows
          \o <<"</table>\n</div>">>

renderDropdownBlock(params, bodyHtml) ==
    <<"<div class=\"wiki-dropdown\">\n  <button class=\"wiki-dropdown-trigger\" type=\"button\">">>
      \o escapeHtml(Trim(params))
      \o <<"</button>\n  <div class=\"wiki-dropdown-body\">">>
      \o bodyHtml \o <<"</div>\n</div>">>

\* the value of a digit of the given radix, -1 for any other character
RadixVal(c, radix) ==
    LET hex == <<"a", "b", "c", "d", "e", "f">>
        HEX == <<"A", "B", "C", "D", "E", "F">>
        v == IF c \in Digit THEN DigitVal(c)
             ELSE IF \E k \in 1..6 : hex[k] = c \/ HEX[k] = c
                  THEN 9 + CHOOSE k \in 1..6 : hex[k] = c \/ HEX[k] = c
                  ELSE -1
    IN  IF v < radix THEN v ELSE -1

RECURSIVE RadixNum(_, _)
RadixNum(ds, radix) ==
    IF ds = <<>> THEN 0
    ELSE radix * RadixNum(SubSeq(ds, 1, Len(ds) - 1), radix)
           + RadixVal(ds[Len(ds)], radix)

RECURSIVE RadixRun(_, _, _)
\* the first index >= p that holds no digit of the radix
RadixRun(s, p, radix) ==
    IF p > Len(s) \/ RadixVal(s[p], radix) < 0 THEN p
    ELSE RadixRun(s, p + 1, radix)

\* parseInt(s) with no radix: white space, a sign, "0x" for hexadecimal,
\* then the longest run of digits; [nan |-> TRUE] when there is none
ParseInt(s) ==
    LET a == SkipIn(s, 1, WhiteSpace)
        neg == a <= Len(s) /\ s[a] = "-"
        b == IF a <= Len(s) /\ s[a] \in {"-", "+"} THEN a + 1 ELSE a
        isHex == b + 1 <= Len(s) /\ s[b] = "0" /\ s[b + 1] \in {"x", "X"}
        radix == IF isHex THEN 16 ELSE 10
        c == IF isHex THEN b + 2 ELSE b
        e == RadixRun(s, c, radix)
        n == RadixNum(SubSeq(s, c, e - 1), radix)
    IN  IF e = c THEN [nan |-> TRUE, n |-> 0]
        ELSE [nan |-> FALSE, n |-> IF neg THEN 0 - n ELSE n]

\* `${height}` for an integer
IntToStr(n) == IF n < 0 THEN <<"-">> \o NatToStr(0 - n) ELSE NatToStr(n)

DefaultHeight == 400

\* parseInt(x) || 400
HeightOf(s) ==
    LET r == ParseInt(s)
    IN  IF r.nan \/ r.n = 0 THEN DefaultHeight ELSE r.n

InteractiveGraph == <<"I", "n", "t", "e", "r", "a", "c", "t", "i", "v", "e", " ", "G", "r", "a", "p", "h">>

renderDesmosBlock(params, rawBody) ==
    LET pipeIdx == IndexOf(params, "|")
        height == IF pipeIdx # -1
                  THEN HeightOf(Trim(SubSeq(params, 1, pipeIdx)))
                  ELSE HeightOf(Trim(params))
        label == IF pipeIdx # -1 THEN Trim(Slice(params, pipeIdx + 1))
                 ELSE InteractiveGraph
        bodyLines == Split(Trim(rawBody), NL)
        expressions == IF bodyLines[1] # <<>> THEN Trim(bodyLines[1])
                       ELSE <<"[", "]">>
        bounds == IF Len(bodyLines) >= 2 /\ bodyLines[2] # <<>>
                  THEN Trim(bodyLines[2]) ELSE <<>>
    IN  <<"<div class=\"desmos-container\" data-height=\"">> \o IntToStr(height)
          \o <<"\" data-label=\"">> \o escapeHtml(label)
          \o <<"\" data-expressions='">> \o expressions
          \o (IF bounds # <<>> THEN <<"' data-bounds='">> \o bounds ELSE <<>>)
          \o <<"'></div>">>

\* a figure that has its caption element whether or not there is a caption
renderFigureBlockCaptioned(params) ==
    LET pipeIdx == IndexOf(params, "|")
        src == IF pipeIdx # -1 THEN Trim(SubSeq(params, 1, pipeIdx))
               ELSE Trim(params)
        caption == IF pipeIdx # -1 THEN Trim(Slice(params, pipeIdx + 1))
                   ELSE <<>>
    IN  <<"<figure class=\"wiki-figure\">\n  <img src=\"">> \o src
          \o <<"\" alt=\"">>
          \o escapeHtml(IF caption # <<>> THEN caption ELSE src)
          \o <<"\">\n  ">>
          \o <<"<figcaption>">> \o parseInline(caption) \o <<"</figcaption>">>
          \o <<"\n</figure>">>

renderFigureBlock(params) ==
    LET pipeIdx == IndexOf(params, "|")
        src == IF pipeIdx # -1 THEN Trim(SubSeq(params, 1, pipeIdx))
               ELSE Trim(params)
        caption == IF pipeIdx # -1 THEN Trim(Slice(params, pipeIdx + 1))
                   ELSE <<>>
    IN  <<"<figure class=\"wiki-figure\">\n  <img src=\"">> \o src
          \o <<"\" alt=\"">>
          \o escapeHtml(IF caption # <<>> THEN caption ELSE src)
          \o <<"\">\n  ">>
          \o (IF caption # <<>>
              THEN <<"<figcaption>">> \o parseInline(caption)
                     \o <<"</figcaption>">>
              ELSE <<>>)
          \o <<"\n</figure>">>

\* /^\d+\./.test(t)
IsCitationLine(l) ==
    LET t == Trim(l)
        k == SkipIn(t, 1, Digit)
    IN  k > 1 /\ k <= Len(t) /\ t[k] = "."

\* t.replace(/^\d+\.\s*/, '')
StripCitationMarker(t) ==
    LET k == SkipIn(t, 1, Digit)
    IN  IF k > 1 /\ k <= Len(t) /\ t[k] = "."
        THEN Slice(t, SkipIn(t, k + 1, WhiteSpace) - 1) ELSE t

CitationItem(l) ==
    <<"<li>">> \o parseInline(StripCitationMarker(Trim(l))) \o <<"</li>">>

renderCitationsBlock(rawBody) ==
    <<"<section class=\"wiki-citations\" aria-labelledby=\"citations-heading\">\n  <h2 id=\"citations-heading\">References</h2>\n  <ol>">>
      \o Join(MapSeq(FilterSeq(Split(Trim(rawBody), NL), IsCitationLine),
                     CitationItem), <<NL>>)
      \o <<"</ol>\n</section>">>

renderDatabaseBlock(params) ==
    LET pipeIdx == IndexOf(params, "|")
        title == IF pipeIdx # -1 THEN Trim(SubSeq(params, 1, pipeIdx))
                 ELSE Trim(params)
        src == IF pipeIdx # -1 THEN Trim(Slice(params, pipeIdx + 1))
               ELSE <<>>
    IN  <<"<div class=\"wiki-database\" data-src=\"">> \o escapeHtml(src)
          \o <<"\">\n  <div class=\"wiki-database-header\">\n    <span class=\"wiki-database-title\">">>
          \o escapeHtml(title)
          \o <<"</span>\n    <input class=\"wiki-database-search\" type=\"search\" placeholder=\"Search...\" aria-label=\"Search ">>
          \o escapeHtml(title)
          \o <<"\">\n    <label class=\"wiki-database-limit-label\">Show <input class=\"wiki-database-limit\" type=\"number\" min=\"1\" value=\"5\" aria-label=\"Maximum results to show\"> results</label>\n  </div>\n  <div class=\"wiki-database-body\">\n    <p class=\"wiki-database-loading\">Loading...</p>\n  </div>\n</div>">>

renderQuoteBlock(params, bodyHtml) ==
    <<"<blockquote>\n  ">> \o bodyHtml \o <<"\n  ">>
      \o (IF Trim(params) # <<>>
          THEN <<"<footer>-- ">> \o parseInline(Trim(params)) \o <<"</footer>">>
          ELSE <<>>)
      \o <<"\n</blockquote>">>

IsTableDataRow(l) == ~IsSeparatorRow(Trim(l)) /\ StartsWith(Trim(l), <<"|">>)

HeadCell(c) == <<"<th>">> \o parseInline(c) \o <<"</th>">>

BodyCell(c) == <<"<td>">> \o parseInline(c) \o <<"</td>">>

BodyRow(row) ==
    <<"<tr>">> \o Concat(MapSeq(parseCols(row), BodyCell)) \o <<"</tr>">>

renderTable(tableLines) ==
    LET dataRows == FilterSeq(tableLines, IsTableDataRow)
    IN  IF dataRows = <<>> THEN <<>>
        ELSE <<"<table>\n  <thead><tr>">>
               \o Concat(MapSeq(parseCols(dataRows[1]), HeadCell))
               \o <<"</tr></thead>\n  <tbody>">>
               \o Join(MapSeq(Tail(dataRows), BodyRow), <<NL>>)
               \o <<"</tbody>\n</table>">>

-----------------------------------------------------------------------------
(* Main block parser: parseBlocks.  The state of one call is a record      *)
(* [lines, i, para, out]: the line array, the cursor (from 0), the         *)
(* paragraph accumulator and the output array.                             *)

Fence == <<":", ":", ":">>
MathFence == <<"$", "$">>
CodeFence == <<BT, BT, BT>>

\* flushParagraph
Flush(st) ==
    LET t == Trim(Join(st.para, <<" ">>))
    IN  [st EXCEPT !.out = IF t # <<>>
                           THEN Append(@, <<"<p>">> \o parseInline(t) \o <<"</p>">>)
                           ELSE @,
                   !.para = <<>>]

\* The cursor after  while (i < lines.length && !Stop(lines[i])) i++
\* started at n: the first line from n on that stops the scan, or the end.
ScanTo(ls, n, Stop(_)) ==
    LET S == {j \in n..(Len(ls) - 1) : Stop(Line(ls, j))}
    IN  IF S = {} THEN (IF n > Len(ls) THEN n ELSE Len(ls))
        ELSE CHOOSE j \in S : \A k \in S : j <= k

\* LinesBetween without its last line: a scan that stops one line short
LinesBetweenShort(ls, a, b) == SubSeq(ls, a + 1, b - 1)

\* lines[a .. b-1], cursors counted from 0
LinesBetween(ls, a, b) == SubSeq(ls, a + 1, b)

(* The tests of the main loop, each on the trimmed line. *)

IsBlank(t) == t = <<>>

\* IsFencedOpen without the identifier: any line that begins with :::
IsFencedOpenBare(t) == StartsWith(t, Fence)

\* trimmed.match(/^:::(\w+)(.*)/)
IsFencedOpen(t) == StartsWith(t, Fence) /\ SkipIn(t, 4, WordChar) > 4

IsMathOpen(t) == t = MathFence

\* the one-line math test without the length condition
IsMathLineAnyLength(t) ==
    StartsWith(t, MathFence) /\ EndsWith(t, MathFence)

IsMathLine(t) ==
    StartsWith(t, MathFence) /\ EndsWith(t, MathFence) /\ Len(t) > 4

IsCodeOpen(t) == StartsWith(t, CodeFence)

\* the heading test without the space after the number signs
IsHeadingNoSpace(t, n) ==
    /\ StartsWith(t, [k \in 1..n |-> "#"])
    /\ DotStar(t, n + 2) # <<>>

\* trimmed.match(/^#{n} (.+)/)
IsHeading(t, n) ==
    /\ StartsWith(t, [k \in 1..(n + 1) |-> IF k <= n THEN "#" ELSE " "])
    /\ DotStar(t, n + 2) # <<>>

\* /^-{3,}$/.test(trimmed) || /^\*{3,}$/.test(trimmed)
IsRule(t) ==
    /\ Len(t) >= 3
    /\ \/ \A k \in 1..Len(t) : t[k] = "-"
       \/ \A k \in 1..Len(t) : t[k] = "*"

\* the quote test that takes any line beginning with a greater-than sign
IsQuoteAnyMarker(t) == StartsWith(t, <<">">>)

IsQuote(t) == StartsWith(t, <<">", " ">>) \/ t = <<">">>

\* the unordered item test for the dash only
IsUnorderedDashOnly(t) == Len(t) >= 2 /\ t[1] = "-" /\ t[2] = " "

\* /^[-*] /.test(trimmed)
IsUnordered(t) == Len(t) >= 2 /\ t[1] \in {"-", "*"} /\ t[2] = " "

\* /^\d+\. /.test(trimmed)
IsOrdered(t) ==
    LET k == SkipIn(t, 1, Digit)
    IN  k > 1 /\ k + 1 <= Len(t) /\ t[k] = "." /\ t[k + 1] = " "

IsTableRow(t) == StartsWith(t, <<"|">>)

\* BranchOf with the test for a horizontal rule left out
BranchOfNoRule(raw) ==
    LET t == Trim(raw)
    IN  IF IsBlank(t) THEN "blank"
        ELSE IF IsFencedOpen(t) THEN "fenced"
        ELSE IF IsMathOpen(t) THEN "mathBlock"
        ELSE IF IsMathLine(t) THEN "mathLine"
        ELSE IF IsCodeOpen(t) THEN "code"
        ELSE IF IsHeading(t, 4) THEN "h4"
        ELSE IF IsHeading(t, 3) THEN "h3"
        ELSE IF IsHeading(t, 2) THEN "h2"
        ELSE IF IsQuote(t) THEN "quote"
        ELSE IF IsUnordered(t) THEN "ul"
        ELSE IF IsOrdered(t) THEN "ol"
        ELSE IF IsTableRow(t) THEN "table"
        ELSE "paragraph"

\* the branch of the main loop that handles a line: the first test, in
\* the order of the source, that the trimmed line passes
BranchOf(raw) ==
    LET t == Trim(raw)
    IN  IF IsBlank(t) THEN "blank"
        ELSE IF IsFencedOpen(t) THEN "fenced"
        ELSE IF IsMathOpen(t) THEN "mathBlock"
        ELSE IF IsMathLine(t) THEN "mathLine"
        ELSE IF IsCodeOpen(t) THEN "code"
        ELSE IF IsHeading(t, 4) THEN "h4"
        ELSE IF IsHeading(t, 3) THEN "h3"
        ELSE IF IsHeading(t, 2) THEN "h2"
        ELSE IF IsRule(t) THEN "rule"
        ELSE IF IsQuote(t) THEN "quote"
        ELSE IF IsUnordered(t) THEN "ul"
        ELSE IF IsOrdered(t) THEN "ol"
        ELSE IF IsTableRow(t) THEN "table"
        ELSE "paragraph"

(* The branches. *)

\* BlankBranch without i++
BlankBranchStay(st) == Flush(st)

BlankBranch(st) == [Flush(st) EXCEPT !.i = st.i + 1]

\* RenderFenced with the kind summary matched whatever the case of its
\* first letter
RenderFencedAnyCase(blockType, blockParams, rawBody, bodyHtml) ==
    CASE blockType \in {<<"s", "u", "m", "m", "a", "r", "y">>,
                        <<"S", "u", "m", "m", "a", "r", "y">>} ->
           renderSummaryBlock(bodyHtml)
      [] blockType = <<"n", "o", "t", "i", "c", "e">> ->
           renderNoticeBlock(bodyHtml)
      [] blockType = <<"i", "n", "f", "o", "b", "o", "x">> ->
           renderInfoboxBlock(blockParams, rawBody)
      [] blockType = <<"d", "r", "o", "p", "d", "o", "w", "n">> ->
           renderDropdownBlock(blockParams, bodyHtml)
      [] blockType = <<"d", "e", "s", "m", "o", "s">> ->
           renderDesmosBlock(blockParams, rawBody)
      [] blockType = <<"f", "i", "g", "u", "r", "e">> ->
           renderFigureBlock(blockParams)
      [] blockType = <<"c", "i", "t", "a", "t", "i", "o", "n", "s">> ->
           renderCitationsBlock(rawBody)
      [] blockType = <<"d", "a", "t", "a", "b", "a", "s", "e">> ->
           renderDatabaseBlock(blockParams)
      [] blockType = <<"q", "u", "o", "t", "e">> ->
           renderQuoteBlock(blockParams, bodyHtml)
      [] OTHER ->
           <<"<div class=\"wmd-">> \o escapeHtml(blockType) \o <<"\">">>
             \o bodyHtml \o <<"</div>">>

\* The switch on blockType.  bodyHtml stands for parseBlocks(rawBody),
\* which only the cases that recurse read.
RenderFenced(blockType, blockParams, rawBody, bodyHtml) ==
    CASE blockType = <<"s", "u", "m", "m", "a", "r", "y">> ->
           renderSummaryBlock(bodyHtml)
      [] blockType = <<"n", "o", "t", "i", "c", "e">> ->
           renderNoticeBlock(bodyHtml)
      [] blockType = <<"i", "n", "f", "o", "b", "o", "x">> ->
           renderInfoboxBlock(blockParams, rawBody)
      [] blockType = <<"d", "r", "o", "p", "d", "o", "w", "n">> ->
           renderDropdownBlock(blockParams, bodyHtml)
      [] blockType = <<"d", "e", "s", "m", "o", "s">> ->
           renderDesmosBlock(blockParams, rawBody)
      [] blockType = <<"f", "i", "g", "u", "r", "e">> ->
           renderFigureBlock(blockParams)
      [] blockType = <<"c", "i", "t", "a", "t", "i", "o", "n", "s">> ->
           renderCitationsBlock(rawBody)
      [] blockType = <<"d", "a", "t", "a", "b", "a", "s", "e">> ->
           renderDatabaseBlock(blockParams)
      [] blockType = <<"q", "u", "o", "t", "e">> ->
           renderQuoteBlock(blockParams, bodyHtml)
      [] OTHER ->
           <<"<div class=\"wmd-">> \o escapeHtml(blockType) \o <<"\">">>
             \o bodyHtml \o <<"</div>">>

IsFenceClose(l) == Trim(l) = Fence

\* the scan that stops on the last ::: of the lines instead of the first
FencedCloseLast(st) ==
    LET S == {j \in (st.i + 1)..(Len(st.lines) - 1) : IsFenceClose(Line(st.lines, j))}
    IN  IF S = {} THEN Len(st.lines) ELSE CHOOSE j \in S : \A k \in S : k <= j

\* the cursor on the closing ::: of the container opened on line i, or the
\* number of lines when there is none
FencedClose(st) == ScanTo(st.lines, st.i + 1, IsFenceClose)

\* rawBody: blockLines.join('\n')
FencedBody(st) ==
    Join(LinesBetween(st.lines, st.i + 1, FencedClose(st)), <<NL>>)

\* bodyHtml stands for parseBlocks(FencedBody(st))
FencedBranch(st, bodyHtml) ==
    LET t == Trim(Line(st.lines, st.i))
        k == SkipIn(t, 4, WordChar)
        blockType == SubSeq(t, 4, k - 1)
        blockParams == Trim(DotStar(t, k))
    IN  [Flush(st) EXCEPT
            !.i = FencedClose(st) + 1,
            !.out = Append(@, RenderFenced(blockType, blockParams,
                                           FencedBody(st), bodyHtml))]

IsMathClose(l) == Trim(l) = MathFence

MathBlockBranch(st) ==
    LET close == ScanTo(st.lines, st.i + 1, IsMathClose)
        mathLines == LinesBetween(st.lines, st.i + 1, close)
    IN  [Flush(st) EXCEPT
            !.i = close + 1,
            !.out = Append(@, <<"<div class=\"math-block\">", "$", "$">>
                                \o Join(mathLines, <<NL>>)
                                \o <<"$", "$", "</div>">>)]

MathLineBranch(st) ==
    [Flush(st) EXCEPT
        !.i = st.i + 1,
        !.out = Append(@, <<"<div class=\"math-block\">">>
                            \o Trim(Line(st.lines, st.i)) \o <<"</div>">>)]

\* the closing test that takes only a line of three backticks and nothing else
IsCodeCloseExact(l) == Trim(l) = CodeFence

IsCodeClose(l) == StartsWith(Trim(l), CodeFence)

CodeBranch(st) ==
    LET lang == Trim(Slice(Trim(Line(st.lines, st.i)), 3))
        close == ScanTo(st.lines, st.i + 1, IsCodeClose)
        codeLines == LinesBetween(st.lines, st.i + 1, close)
        open == IF lang # <<>>
                THEN <<"<pre><code class=\"language-">> \o escapeHtml(lang)
                       \o <<"\">">>
                ELSE <<"<pre><code>">>
    IN  [Flush(st) EXCEPT
            !.i = close + 1,
            !.out = Append(@, open \o escapeHtml(Join(codeLines, <<NL>>))
                                \o <<"</code></pre>">>)]

\* HeadingBranch without flushParagraph()
HeadingBranchNoFlush(st, n) ==
    LET open == IF n = 4 THEN "<h4>" ELSE IF n = 3 THEN "<h3>" ELSE "<h2>"
        close == IF n = 4 THEN "</h4>" ELSE IF n = 3 THEN "</h3>" ELSE "</h2>"
    IN  [st EXCEPT
            !.i = st.i + 1,
            !.out = Append(@, <<open>>
                                \o parseInline(DotStar(Trim(Line(st.lines, st.i)), n + 2))
                                \o <<close>>)]

HeadingBranch(st, n) ==
    LET open == IF n = 4 THEN "<h4>" ELSE IF n = 3 THEN "<h3>" ELSE "<h2>"
        close == IF n = 4 THEN "</h4>" ELSE IF n = 3 THEN "</h3>" ELSE "</h2>"
    IN  [Flush(st) EXCEPT
            !.i = st.i + 1,
            !.out = Append(@, <<open>>
                                \o parseInline(DotStar(Trim(Line(st.lines, st.i)), n + 2))
                                \o <<close>>)]

RuleBranch(st) ==
    [Flush(st) EXCEPT !.i = st.i + 1, !.out = Append(@, <<"<hr>">>)]

NotQuote(l) == ~IsQuote(Trim(l))

\* the marker blanked out instead of removed: the line keeps its length
DequoteBlanked(l) == <<" ">> \o Slice(Trim(l), 1)

\* lines[i].trim().replace(/^>\s?/, '')
Dequote(l) ==
    LET t == Trim(l)
    IN  IF Len(t) >= 2 /\ t[2] \in WhiteSpace THEN Slice(t, 2) ELSE Slice(t, 1)

\* the cursor after the run of quoted lines that starts on line i
QuoteStop(st) == ScanTo(st.lines, st.i, NotQuote)

\* qLines.join('\n')
QuoteBody(st) ==
    Join(MapSeq(LinesBetween(st.lines, st.i, QuoteStop(st)), Dequote), <<NL>>)

\* bodyHtml stands for parseBlocks(QuoteBody(st))
QuoteBranch(st, bodyHtml) ==
    [Flush(st) EXCEPT
        !.i = QuoteStop(st),
        !.out = Append(@, <<"<blockquote>">> \o bodyHtml \o <<"</blockquote>">>)]

NotUnordered(l) == ~IsUnordered(Trim(l))

UnorderedItem(l) ==
    <<"<li>">> \o parseInline(Slice(Trim(l), 2)) \o <<"</li>">>

UnorderedBranch(st) ==
    LET stop == ScanTo(st.lines, st.i, NotUnordered)
        items == MapSeq(LinesBetween(st.lines, st.i, stop), UnorderedItem)
    IN  [Flush(st) EXCEPT
            !.i = stop,
            !.out = Append(@, <<"<ul>">> \o Concat(items) \o <<"</ul>">>)]

NotOrdered(l) == ~IsOrdered(Trim(l))

\* an ordered item that keeps its marker
OrderedItemKeepNumber(l) ==
    <<"<li>">> \o parseInline(Trim(l)) \o <<"</li>">>

\* lines[i].trim().replace(/^\d+\. /, '')
OrderedItem(l) ==
    LET t == Trim(l)
    IN  <<"<li>">> \o parseInline(Slice(t, SkipIn(t, 1, Digit) + 1))
          \o <<"</li>">>

OrderedBranch(st) ==
    LET stop == ScanTo(st.lines, st.i, NotOrdered)
        items == MapSeq(LinesBetween(st.lines, st.i, stop), OrderedItem)
    IN  [Flush(st) EXCEPT
            !.i = stop,
            !.out = Append(@, <<"<ol>">> \o Concat(items) \o <<"</ol>">>)]

NotTableRow(l) == ~IsTableRow(Trim(l))

TableBranch(st) ==
    LET stop == ScanTo(st.lines, st.i, NotTableRow)
    IN  [Flush(st) EXCEPT
            !.i = stop,
            !.out = Append(@, renderTable(LinesBetween(st.lines, st.i, stop)))]

\* a paragraph branch that keeps the line as it is
ParagraphBranchUntrimmed(st) ==
    [st EXCEPT !.i = st.i + 1,
               !.para = Append(@, Line(st.lines, st.i))]

ParagraphBranch(st) ==
    [st EXCEPT !.i = st.i + 1,
               !.para = Append(@, Trim(Line(st.lines, st.i)))]

\* the text handed to the recursive call by the branch that handles line i
NestedSource(st) ==
    IF BranchOf(Line(st.lines, st.i)) = "quote" THEN QuoteBody(st)
    ELSE FencedBody(st)

\* the branch named b, run on state st
Branch(b, st, bodyHtml) ==
    CASE b = "blank" -> BlankBranch(st)
      [] b = "fenced" -> FencedBranch(st, bodyHtml)
      [] b = "mathBlock" -> MathBlockBranch(st)
      [] b = "mathLine" -> MathLineBranch(st)
      [] b = "code" -> CodeBranch(st)
      [] b = "h4" -> HeadingBranch(st, 4)
      [] b = "h3" -> HeadingBranch(st, 3)
      [] b = "h2" -> HeadingBranch(st, 2)
      [] b = "rule" -> RuleBranch(st)
      [] b = "quote" -> QuoteBranch(st, bodyHtml)
      [] b = "ul" -> UnorderedBranch(st)
      [] b = "ol" -> OrderedBranch(st)
      [] b = "table" -> TableBranch(st)
      [] OTHER -> ParagraphBranch(st)

\* the state at the start of parseBlocks(src)
StartBlocks(src) ==
    [lines |-> Split(src, NL), i |-> 0, para |-> <<>>, out |-> <<>>]

\* after the loop: flushParagraph(); return output.join('\n')
FinishBlocks(st) == Join(Flush(st).out, <<NL>>)

RECURSIVE RunBlocks(_)
\* The main loop, run to its end from state st: each iteration runs the
\* branch of the line under the cursor; the recursive call of parseBlocks
\* that a container or blockquote branch makes is the loop run on the
\* nested text from its start.
RunBlocks(st) ==
    IF st.i < Len(st.lines)
    THEN RunBlocks(Branch(BranchOf(Line(st.lines, st.i)), st,
                          RunBlocks(StartBlocks(NestedSource(st)))))
    ELSE FinishBlocks(st)

parseBlocks(src) == RunBlocks(StartBlocks(src))

\* the public parse
parse(src) ==
    LET fm == parseFrontmatter(src)
    IN  [meta |-> fm.meta, html |-> parseBlocks(fm.body)]

-----------------------------------------------------------------------------
(* Bounds and inputs.                                                      *)

\* the longest text given to parseInline character by character
MaxInlineLen == 5

\* the most lines of a document built from the line pool, and the most
\* key/value lines of a frontmatter block
MaxLines == 3

\* all sequences over S of length at most n
SeqsUpTo(S, n) == UNION {[1..k -> S] : k \in 0..n}

InlineAlphabet == {"a", "<", "*", BT, "$"}

\* texts of the specification's examples and one of each inline form
InlineSamples ==
    { <<BT, "a", " ", "<", " ", "b", BT, " ", "a", "n", "d", " ", "$", "x", "^", "2", "$">>,
      <<"*", "*", "*", "b", "o", "l", "d", "-", "i", "t", "a", "l", "i", "c", "*", "*", "*">>,
      <<"[", "t", "]", "(", "h", "t", "t", "p", ":", "/", "/", "x", ")", " ", "~", "~", "s", "~", "~", " ", "[", "u", "]", "(", "v", ")">>,
      <<"$", "a", "*", "b", "$", " ", "*", "c", "*", " ", BT, "*", "d", "*", BT>>,
      <<"a", " ", "&", " ", "\"", "b", "\"", " ", "'", "c", "'", " ", ">", " ", "d">>,
      <<NUL, "0", NUL, " ", BT, "x", BT, " ", "*", "*", "y">> }

\* link targets with and without the http and https schemes
LinkUrls ==
    { <<"h", "t", "t", "p", ":", "/", "/", "x">>,
      <<"h", "t", "t", "p", "s", ":", "/", "/", "x">>,
      <<"v">>,
      <<"h", "t", "t", "p", "x">>,
      <<"f", "t", "p", ":", "/", "/", "x">>,
      <<"H", "t", "t", "p", ":", "/", "/", "x">>,
      <<" ", "h", "t", "t", "p", ":", "/", "/", "x">>,
      <<"/", "/", "x">> }

\* one link, alone on the line or inside plain text
LinkSamples ==
    {pre \o <<"[", "t", "]", "(">> \o u \o <<")">> \o post :
        pre \in {<<>>, <<"a", " ">>}, u \in LinkUrls, post \in {<<>>, <<" ", "b">>}}

\* an opener that nothing closes, alone or inside text
UnmatchedSamples ==
    {pre \o op \o post :
        pre \in {<<>>, <<"a", " ">>},
        op \in {<<"*", "*">>, <<"*">>, <<"~", "~">>, <<BT>>, <<"$">>,
                <<"[", "t", "]", "(">>},
        post \in {<<>>, <<"b">>, <<"v", " ", "<", "b">>}}

InlineInputs ==
    SeqsUpTo(InlineAlphabet, MaxInlineLen) \cup InlineSamples \cup LinkSamples
        \cup UnmatchedSamples

\* one line for every branch of the main loop, and lines that come close
\* to a test without passing it
LinePool ==
    { <<>>,
      <<":", ":", ":", "d", "r", "o", "p", "d", "o", "w", "n", " ", "T">>,
      <<":", ":", ":">>,
      <<"$", "$">>,
      <<"$", "$", "a", "$", "$">>,
      <<BT, BT, BT>>,
      <<"#", "#", " ", "a", "<", "b">>,
      <<"#", "#", "#", " ", "c">>,
      <<"#", "#", "#", "#", " ", "d">>,
      <<"-", "-", "-">>,
      <<">", " ", "q">>,
      <<"-", " ", "x">>,
      <<"1", ".", " ", "y">>,
      <<"|", " ", "c", " ", "|">>,
      <<"p", " ", BT, "<", BT, " ", "$", "m", "$">> }


\* lines of a frontmatter block: well formed, malformed, and odd keys
FrontmatterPool ==
    { <<"f", "e", "a", "t", "u", "r", "e", "d", ":", " ", "t", "r", "u", "e">>,
      <<"t", "a", "g", "s", ":", " ", "a", ",", " ", "b", " ", ",", " ", "c">>,
      <<"x">>,
      <<" ", "b", ":", " ", "c">>,
      <<"f", "e", "a", "t", "u", "r", "e", "d", ":", "F", "a", "l", "s", "e">>,
      <<"_", "_", "p", "r", "o", "t", "o", "_", "_", ":", " ", "v">>,
      <<>> }

FrontmatterTails ==
    { <<>>,
      <<Dashes>>,
      <<Dashes, <<"b">>>>,
      <<<<"c", ":", " ", "d">>, <<>>, <<"e">>>> }

\* the example document of the specification
ExampleDoc ==
    <<"-", "-", "-", NL, "t", "i", "t", "l", "e", ":", " ", "D", "e", "m",
    "o", NL, "t", "a", "g", "s", ":", " ", "x", ",", " ", "y", NL, "-", "-",
    "-", NL, "#", "#", " ", "H", "e", "a", "d", "i", "n", "g", NL, "S", "o",
    "m", "e", " ", "*", "*", "b", "o", "l", "d", "*", "*", " ", "a", "n",
    "d", " ", BT, "c", "o", "d", "e", BT, ".">>

\* body lines after a frontmatter block: a heading, a line with a colon,
\* a line of three dashes, a blank line
BodyPool ==
    { <<"#", "#", " ", "a", "<", "b">>,
      <<"t", "a", "g", "s", ":", " ", "q">>,
      <<"-", "-", "-">>,
      <<>> }

\* a closed frontmatter block and a body, and the example document
ParseDocs ==
    {Join(<<Dashes>> \o fm \o <<Dashes>> \o bd, <<NL>>) :
        fm \in SeqsUpTo(FrontmatterPool, MaxLines - 2),
        bd \in SeqsUpTo(BodyPool, MaxLines - 1)}
    \cup {ExampleDoc}

\* text with and without surrounding spaces, a blank line, a heading
ParagraphPool ==
    { <<"a">>,
      <<" ", "b", " ">>,
      <<>>,
      <<"#", "#", " ", "h">>,
      <<"c", "<", "d">> }

\* lines of number signs that are no headings, and headings with odd text
HeadingPool ==
    { <<"#", " ", "x">>,
      <<"#", "#">>,
      <<"#", "#", "#", "#", "#", " ", "x">>,
      <<"#", "#", "#", "x">>,
      <<"#", "#", "#", "#", " ", " ", "y">>,
      <<"#", "#", "#", " ", "#">> }

\* fences of a code block, and lines that are block constructs elsewhere
CodePool ==
    { <<BT, BT, BT, "j", "s">>,
      <<" ", BT, BT, BT, " ">>,
      <<"#", "#", " ", "h", "<">>,
      <<"-", " ", "x">>,
      <<":", ":", ":", "n">>,
      <<"$", "$">>,
      <<>> }

\* fences of a math block, one-line math, and lines with markup
MathPool ==
    { <<"$", "$">>,
      <<" ", "$", "$", " ">>,
      <<"$", "$", "a", "<", "b", "$", "$">>,
      <<"$", "$", "$", "$">>,
      <<" ", "x", " ", "*", "y", "*", " ">>,
      <<"#", "#", " ", "h">> }

\* quoted lines, a bare marker, a nested quote, a marker without space
QuotePool ==
    { <<">", " ", "q">>,
      <<">">>,
      <<">", " ", ">", " ", "r">>,
      <<">", "x">>,
      <<">", " ", "#", "#", " ", "h">>,
      <<"p">> }

\* lines of a container interior that open something themselves, and lines
\* that follow the first closing line
NestingInterior ==
    { <<":", ":", ":", "n", "o", "t", "i", "c", "e">>,
      <<BT, BT, BT>>,
      <<"$", "$">>,
      <<"p">> }

NestingTail == { <<"q">>, <<" ", ":", ":", ":">>, <<BT, BT, BT>>, <<"$", "$">> }

\* a summary container, one or two interior lines, its closing line, and up
\* to two lines after it
NestingDocs ==
    {Join(<<Fence \o <<"s", "u", "m", "m", "a", "r", "y">> >> \o inner
            \o <<Fence>> \o tail, <<NL>>) :
        inner \in SeqsUpTo(NestingInterior, 2) \ {<<>>},
        tail \in SeqsUpTo(NestingTail, 2)}

\* the documents of at most MaxLines lines of a pool
DocsOf(pool) == {Join(ls, <<NL>>) : ls \in SeqsUpTo(pool, MaxLines) \ {<<>>}}

Docs ==
    DocsOf(LinePool) \cup ParseDocs \cup DocsOf(ParagraphPool)
        \cup DocsOf(HeadingPool) \cup DocsOf(CodePool) \cup DocsOf(MathPool)
        \cup DocsOf(QuotePool) \cup NestingDocs

\* documents that open a frontmatter block, closed or not, and documents
\* without one, character by character
FrontmatterDocs ==
    {Join(<<open>> \o ls \o tl, <<NL>>) :
        open \in {Dashes, <<" ", "-", "-", "-", " ">>},
        ls \in SeqsUpTo(FrontmatterPool, MaxLines),
        tl \in FrontmatterTails}
    \cup SeqsUpTo({"-", NL, "a", " "}, MaxLines + 1)

-----------------------------------------------------------------------------
(* parseInline, one replace call per step.                                 *)

\* the variables a call of parseInline leaves alone
InlineFrame ==
    UNCHANGED <<pageVars, source, lines, i, meta, body, paragraphLines, output, branch,
                starts, paraStart>>

InitInline ==
    /\ source \in InlineInputs
    /\ text = source
    /\ slots = <<>>
    /\ pc = "code"
    /\ lines = <<>> /\ i = 0 /\ meta = EmptyMeta /\ body = <<>>
    /\ paragraphLines = <<>> /\ output = <<>> /\ html = <<>>
    /\ branch = "none" /\ starts = <<>> /\ paraStart = -1
    /\ PageIdle

ProtectCodeStep ==
    /\ pc = "code"
    /\ text' = ProtectCode(text, slots).text
    /\ slots' = ProtectCode(text, slots).slots
    /\ pc' = "math"
    /\ UNCHANGED html /\ InlineFrame

ProtectMathStep ==
    /\ pc = "math"
    /\ text' = ProtectMath(text, slots).text
    /\ slots' = ProtectMath(text, slots).slots
    /\ pc' = "boldItalic"
    /\ UNCHANGED html /\ InlineFrame

BoldItalicStep ==
    /\ pc = "boldItalic"
    /\ text' = BoldItalic(text)
    /\ pc' = "bold"
    /\ UNCHANGED <<slots, html>> /\ InlineFrame

BoldStep ==
    /\ pc = "bold"
    /\ text' = Bold(text)
    /\ pc' = "italic"
    /\ UNCHANGED <<slots, html>> /\ InlineFrame

ItalicStep ==
    /\ pc = "italic"
    /\ text' = Italic(text)
    /\ pc' = "strike"
    /\ UNCHANGED <<slots, html>> /\ InlineFrame

StrikeStep ==
    /\ pc = "strike"
    /\ text' = Strike(text)
    /\ pc' = "links"
    /\ UNCHANGED <<slots, html>> /\ InlineFrame

LinksStep ==
    /\ pc = "links"
    /\ text' = Links(text)
    /\ pc' = "restore"
    /\ UNCHANGED <<slots, html>> /\ InlineFrame

RestoreStep ==
    /\ pc = "restore"
    /\ html' = Restore(text, slots)
    /\ pc' = "returned"
    /\ UNCHANGED <<text, slots>> /\ InlineFrame

NextInline ==
    \/ ProtectCodeStep
    \/ ProtectMathStep
    \/ BoldItalicStep
    \/ BoldStep
    \/ ItalicStep
    \/ StrikeStep
    \/ LinksStep
    \/ RestoreStep

SpecInline == InitInline /\ [][NextInline]_vars

-----------------------------------------------------------------------------
(* parseFrontmatter, one line per step.                                    *)

FrontmatterFrame ==
    UNCHANGED <<pageVars, source, text, slots, paragraphLines, output, html, branch,
                starts, paraStart>>

InitFrontmatter ==
    /\ source \in FrontmatterDocs
    /\ pc = "fm_start"
    /\ lines = <<>> /\ i = 0 /\ meta = EmptyMeta /\ body = <<>>
    /\ text = <<>> /\ slots = <<>>
    /\ paragraphLines = <<>> /\ output = <<>> /\ html = <<>>
    /\ branch = "none" /\ starts = <<>> /\ paraStart = -1
    /\ PageIdle

\* the first line is the delimiter: i = 1
FrontmatterOpen ==
    /\ pc = "fm_start"
    /\ HasFrontmatter(Split(source, NL))
    /\ lines' = Split(source, NL)
    /\ i' = 1
    /\ pc' = "fm_scan"
    /\ UNCHANGED <<meta, body>> /\ FrontmatterFrame

\* it is not: the if is skipped and i stays 0
FrontmatterAbsent ==
    /\ pc = "fm_start"
    /\ ~HasFrontmatter(Split(source, NL))
    /\ lines' = Split(source, NL)
    /\ i' = 0
    /\ pc' = "fm_return"
    /\ UNCHANGED <<meta, body>> /\ FrontmatterFrame

\* a line that matches: recorded
FrontmatterRecord ==
    /\ pc = "fm_scan"
    /\ Scanning(lines, i)
    /\ FrontmatterMatch(Line(lines, i)) # 0
    /\ meta' = RecordLine(meta, Line(lines, i))
    /\ i' = i + 1
    /\ UNCHANGED <<pc, lines, body>> /\ FrontmatterFrame

\* a line that does not: skipped
FrontmatterSkip ==
    /\ pc = "fm_scan"
    /\ Scanning(lines, i)
    /\ FrontmatterMatch(Line(lines, i)) = 0
    /\ meta' = RecordLine(meta, Line(lines, i))
    /\ i' = i + 1
    /\ UNCHANGED <<pc, lines, body>> /\ FrontmatterFrame

\* the loop ends, at the closing delimiter or at the end: i++
FrontmatterClose ==
    /\ pc = "fm_scan"
    /\ ~Scanning(lines, i)
    /\ i' = i + 1
    /\ pc' = "fm_return"
    /\ UNCHANGED <<lines, meta, body>> /\ FrontmatterFrame

FrontmatterReturn ==
    /\ pc = "fm_return"
    /\ body' = BodyFrom(lines, i)
    /\ pc' = "fm_returned"
    /\ UNCHANGED <<lines, i, meta>> /\ FrontmatterFrame

NextFrontmatter ==
    \/ FrontmatterOpen
    \/ FrontmatterAbsent
    \/ FrontmatterRecord
    \/ FrontmatterSkip
    \/ FrontmatterClose
    \/ FrontmatterReturn

SpecFrontmatter == InitFrontmatter /\ [][NextFrontmatter]_vars

-----------------------------------------------------------------------------
(* parse: parseFrontmatter, then parseBlocks on the body, one iteration of *)
(* its main loop per step.                                                 *)

Init ==
    /\ source \in Docs
    /\ pc = "parse"
    /\ lines = <<>> /\ i = 0 /\ meta = EmptyMeta /\ body = <<>>
    /\ text = <<>> /\ slots = <<>>
    /\ paragraphLines = <<>> /\ output = <<>> /\ html = <<>>
    /\ branch = "none" /\ starts = <<>> /\ paraStart = -1
    /\ PageIdle

\* const { meta, body } = parseFrontmatter(source), and the first
\* statements of parseBlocks(body)
EnterBlocks ==
    /\ pc = "parse"
    /\ \E fm \in {parseFrontmatter(source)} :
         /\ meta' = fm.meta
         /\ body' = fm.body
         /\ lines' = Split(fm.body, NL)
    /\ i' = 0
    /\ paragraphLines' = <<>>
    /\ output' = <<>>
    /\ pc' = "loop"
    /\ UNCHANGED <<pageVars, source, text, slots, html, branch, starts, paraStart>>

\* the state of the running parseBlocks call
Cur == [lines |-> lines, i |-> i, para |-> paragraphLines, out |-> output]

\* One iteration of the main loop on a line of branch b, leading to state
\* nx.  The history variables record where each pushed block began.
Iterate(b, nx) ==
    /\ i < Len(lines)
    /\ BranchOf(Line(lines, i)) = b
    /\ \E r \in {nx} :
         /\ i' = r.i
         /\ paragraphLines' = r.para
         /\ output' = r.out
         /\ starts' = IF b = "paragraph" THEN starts
                      ELSE starts
                             \o (IF paragraphLines # <<>>
                                 THEN <<paraStart>> ELSE <<>>)
                             \o (IF Len(r.out) > Len(output)
                                          + (IF paragraphLines # <<>> THEN 1 ELSE 0)
                                 THEN <<i>> ELSE <<>>)
    /\ branch' = b
    /\ paraStart' = IF b # "paragraph" THEN -1
                    ELSE IF paragraphLines = <<>> THEN i ELSE paraStart
    /\ UNCHANGED <<pageVars, pc, source, text, slots, lines, meta, body, html>>

Blank ==
    /\ pc = "loop"
    /\ Iterate("blank", BlankBranch(Cur))
Fenced ==
    /\ pc = "loop"
    /\ Iterate("fenced", FencedBranch(Cur, parseBlocks(FencedBody(Cur))))
MathBlock ==
    /\ pc = "loop"
    /\ Iterate("mathBlock", MathBlockBranch(Cur))
MathLine ==
    /\ pc = "loop"
    /\ Iterate("mathLine", MathLineBranch(Cur))
Code ==
    /\ pc = "loop"
    /\ Iterate("code", CodeBranch(Cur))
Heading4 ==
    /\ pc = "loop"
    /\ Iterate("h4", HeadingBranch(Cur, 4))
Heading3 ==
    /\ pc = "loop"
    /\ Iterate("h3", HeadingBranch(Cur, 3))
Heading2 ==
    /\ pc = "loop"
    /\ Iterate("h2", HeadingBranch(Cur, 2))
Rule ==
    /\ pc = "loop"
    /\ Iterate("rule", RuleBranch(Cur))
Quote ==
    /\ pc = "loop"
    /\ Iterate("quote", QuoteBranch(Cur, parseBlocks(QuoteBody(Cur))))
Unordered ==
    /\ pc = "loop"
    /\ Iterate("ul", UnorderedBranch(Cur))
Ordered ==
    /\ pc = "loop"
    /\ Iterate("ol", OrderedBranch(Cur))
Table ==
    /\ pc = "loop"
    /\ Iterate("table", TableBranch(Cur))
Paragraph ==
    /\ pc = "loop"
    /\ Iterate("paragraph", ParagraphBranch(Cur))

\* the loop is over: flushParagraph(); return output.join('\n')
Return ==
    /\ pc = "loop"
    /\ i >= Len(lines)
    /\ \E f \in {Flush(Cur)} :
         /\ paragraphLines' = f.para
         /\ output' = f.out
         /\ html' = Join(f.out, <<NL>>)
    /\ starts' = starts \o (IF paragraphLines # <<>>
                            THEN <<paraStart>> ELSE <<>>)
    /\ paraStart' = -1
    /\ pc' = "returned"
    /\ UNCHANGED <<pageVars, source, text, slots, lines, i, meta, body, branch>>

Next ==
    \/ EnterBlocks
    \/ Blank
    \/ Fenced
    \/ MathBlock
    \/ MathLine
    \/ Code
    \/ Heading4
    \/ Heading3
    \/ Heading2
    \/ Rule
    \/ Quote
    \/ Unordered
    \/ Ordered
    \/ Table
    \/ Paragraph
    \/ Return

Spec == Init /\ [][Next]_vars

\* the documents of one line of the line pool, the quoted lines, and the
\* containers that hold one line and are followed by at most one
LiveDocs ==
    {l : l \in LinePool} \cup {l : l \in QuotePool}
        \cup {d \in NestingDocs : Len(Split(d, NL)) <= 4}
        \cup {Join(<<a, b>>, <<NL>>) : a \in QuotePool, b \in QuotePool}
        \cup {Join(<<l, Dashes>>, <<NL>>) : l \in LinePool \ {Dashes}}

InitLive ==
    /\ source \in LiveDocs
    /\ pc = "parse"
    /\ lines = <<>> /\ i = 0 /\ meta = EmptyMeta /\ body = <<>>
    /\ text = <<>> /\ slots = <<>>
    /\ paragraphLines = <<>> /\ output = <<>> /\ html = <<>>
    /\ branch = "none" /\ starts = <<>> /\ paraStart = -1
    /\ PageIdle

\* parse is one synchronous call: once entered, it runs until it returns.
\* This is weak fairness of Next, WF_vars(Next), with the enabling condition
\* of Next written out: a step of Next is possible exactly until the call
\* has returned.
SpecLive ==
    InitLive /\ [][Next]_vars
             /\ ([]<><<Next>>_vars \/ []<>(pc = "returned"))

-----------------------------------------------------------------------------
(* One custom container: parse on a document that is a container and      *)
(* nothing else.                                                           *)

\* the kinds the switch names, one that differs from a name by its case
\* only, and one it does not name
ContainerKinds ==
    { <<"s", "u", "m", "m", "a", "r", "y">>, <<"n", "o", "t", "i", "c", "e">>,
      <<"i", "n", "f", "o", "b", "o", "x">>,
      <<"d", "r", "o", "p", "d", "o", "w", "n">>,
      <<"d", "e", "s", "m", "o", "s">>, <<"f", "i", "g", "u", "r", "e">>,
      <<"c", "i", "t", "a", "t", "i", "o", "n", "s">>,
      <<"d", "a", "t", "a", "b", "a", "s", "e">>, <<"q", "u", "o", "t", "e">>,
      <<"S", "u", "m", "m", "a", "r", "y">>, <<"b", "o", "x">> }

ContainerParams ==
    { <<>>, <<" ", "T">>, <<" ", "3", "0", "0", " ", "|", " ", "L">> }

\* lines of an interior: a heading, a table row, a numbered line, text
InteriorPool ==
    { <<"#", "#", " ", "h">>,
      <<"|", " ", "a", " ", "|", " ", "b", " ", "|">>,
      <<"1", ".", " ", "c">>,
      <<"p">> }

\* parameters of a desmos container: height and label, each there or not
DesmosParams ==
    { <<>>,
      <<" ", "3", "0", "0">>,
      <<" ", "0", " ", "|", " ", "L">>,
      <<" ", "T", " ", "|", " ", "L">>,
      <<" ", "1", "2", "p", "x">>,
      <<" ", "|", " ", "L">>,
      <<" ", "3", "0", "0", " ", "|">>,
      <<" ", "-", "5", " ", "|", " ", "L">>,
      <<" ", "0", "0", "7", " ", "|", " ", "a", "<", "b">> }

\* interior lines of a desmos container
DesmosInterior ==
    { <<"[", "e", "]">>, <<"{", "b", "}">>, <<"x">> }

DesmosDocs ==
    {Join(<<Fence \o <<"d", "e", "s", "m", "o", "s">> \o ps>> \o ls \o cl, <<NL>>) :
        ps \in DesmosParams,
        ls \in SeqsUpTo(DesmosInterior, MaxLines),
        cl \in {<<>>, <<Fence>>}}

\* parameters of a figure or a database container: two parts, each
\* there or not
PairParams ==
    { <<>>,
      <<" ", "p">>,
      <<" ", "p", " ", "|", " ", "c">>,
      <<" ", "p", " ", "|">>,
      <<" ", "|", " ", "c">>,
      <<" ", "p", " ", "|", " ", "a", "<", "b">>,
      <<" ", "p", " ", "|", " ", "c", " ", "|", " ", "d">> }

PairDocs ==
    {Join(<<Fence \o k \o ps>> \o ls \o cl, <<NL>>) :
        k \in {<<"f", "i", "g", "u", "r", "e">>,
               <<"d", "a", "t", "a", "b", "a", "s", "e">>},
        ps \in PairParams,
        ls \in SeqsUpTo(InteriorPool, MaxLines - 2),
        cl \in {<<>>, <<Fence>>}}

\* interior lines of an infobox: rows of two and three cells, a separator
\* row, a row of one cell, text, and a row whose first cell is empty
InfoboxPool ==
    { <<"|", " ", "a", " ", "|", " ", "b", " ", "|">>,
      <<"|", "-", "-", "-", "|", "-", "-", "-", "|">>,
      <<"|", " ", "c", " ", "|">>,
      <<"|", " ", "d", " ", "|", " ", "e", " ", "|", " ", "f", " ", "|">>,
      <<"p">>,
      <<"|", " ", "|", " ", "g", " ", "|", " ", "h", " ", "|">> }

InfoboxDocs ==
    {Join(<<Fence \o <<"i", "n", "f", "o", "b", "o", "x">> \o ps>> \o ls \o cl, <<NL>>) :
        ps \in {<<>>, <<" ", "a", "<", "b">>},
        ls \in SeqsUpTo(InfoboxPool, MaxLines),
        cl \in {<<>>, <<Fence>>}}

\* an opening line, an interior of at most MaxLines lines, closed or not
ContainerDocs ==
    {Join(<<Fence \o k \o ps>> \o ls \o cl, <<NL>>) :
        k \in ContainerKinds, ps \in ContainerParams,
        ls \in SeqsUpTo(InteriorPool, MaxLines),
        cl \in {<<>>, <<Fence>>}}
    \cup DesmosDocs \cup PairDocs \cup InfoboxDocs

InitContainer ==
    /\ source \in ContainerDocs
    /\ pc = "parse"
    /\ lines = <<>> /\ i = 0 /\ meta = EmptyMeta /\ body = <<>>
    /\ text = <<>> /\ slots = <<>>
    /\ paragraphLines = <<>> /\ output = <<>> /\ html = <<>>
    /\ branch = "none" /\ starts = <<>> /\ paraStart = -1
    /\ PageIdle

NextContainer ==
    \/ EnterBlocks
    \/ Fenced
    \/ Return

SpecContainer == InitContainer /\ [][NextContainer]_vars

-----------------------------------------------------------------------------
(* Runs of lines: tables, lists and the lines of a citations container.    *)

\* table rows and a separator row, list items of both kinds with numbers
\* out of order, a numbered line without the space, text, a blank line,
\* and the two lines of a citations container
RunPool ==
    { <<"|", " ", "a", " ", "|", " ", "b", " ", "|">>,
      <<"|", "-", "-", "-", "|", ":", "-", ":", "|">>,
      <<"|", " ", "c", " ", "|">>,
      <<"|", "a", "|", " ", "|", "*", "b", "*", "|">>,
      <<"|", " ", "|", "d">>,
      <<"-", " ", "x">>,
      <<"*", " ", "y">>,
      <<"1", ".", " ", "y">>,
      <<"1", "2", ".", " ", "z">>,
      <<"3", ".", "w">>,
      <<"p">>,
      <<>>,
      <<":", ":", ":", "c", "i", "t", "a", "t", "i", "o", "n", "s">>,
      <<":", ":", ":">> }

RunDocs == {Join(ls, <<NL>>) : ls \in SeqsUpTo(RunPool, MaxLines) \ {<<>>}}

InitRuns ==
    /\ source \in RunDocs
    /\ pc = "parse"
    /\ lines = <<>> /\ i = 0 /\ meta = EmptyMeta /\ body = <<>>
    /\ text = <<>> /\ slots = <<>>
    /\ paragraphLines = <<>> /\ output = <<>> /\ html = <<>>
    /\ branch = "none" /\ starts = <<>> /\ paraStart = -1
    /\ PageIdle

NextRuns ==
    \/ EnterBlocks
    \/ Blank
    \/ Fenced
    \/ Unordered
    \/ Ordered
    \/ Table
    \/ Paragraph
    \/ Return

SpecRuns == InitRuns /\ [][NextRuns]_vars

-----------------------------------------------------------------------------
(* Successive calls of the public functions parse and parseInline.         *)

\* a code span in one paragraph and the text of a placeholder in the next
PlaceholderDoc == <<BT, "x", BT, NL, NL, NUL, "0", NUL>>

CallDocs == {ExampleDoc, PlaceholderDoc}

\* A call made after another has returned.  Every variable of the parser
\* is local to a call (const slots = [], const meta = {}, const output =
\* [], let paragraphLines = [], let i = 0), so the new call starts from
\* fresh values; nothing is declared outside the functions.
Call ==
    /\ pc = "returned"
    /\ \/ \E t \in InlineSamples :
            /\ source' = t /\ text' = t /\ slots' = NewSlots /\ pc' = "code"
       \/ \E d \in CallDocs :
            /\ source' = d /\ text' = <<>> /\ slots' = <<>> /\ pc' = "parse"
    /\ lines' = <<>> /\ i' = 0 /\ meta' = EmptyMeta /\ body' = <<>>
    /\ paragraphLines' = <<>> /\ output' = <<>> /\ html' = <<>>
    /\ branch' = "none" /\ starts' = <<>> /\ paraStart' = -1
    /\ UNCHANGED pageVars

SpecCalls == Init /\ [][Next \/ NextInline \/ Call]_vars

-----------------------------------------------------------------------------
(* Properties of parseInline, stated on SpecInline.                        *)

\* the characters escapeHtml replaces
Special == {"<", ">", "&", "\"", "'"}

\* the entities escapeHtml writes
Entities ==
    { <<"&", "a", "m", "p", ";">>, <<"&", "l", "t", ";">>,
      <<"&", "g", "t", ";">>, <<"&", "q", "u", "o", "t", ";">>,
      <<"&", "#", "3", "9", ";">> }

\* sub is in s from position p on
OccursAt(sub, s, p) ==
    p >= 1 /\ p + Len(sub) - 1 <= Len(s) /\ SubSeq(s, p, p + Len(sub) - 1) = sub

Occurs(sub, s) == \E p \in 1..Len(s) : OccursAt(sub, s, p)

\* the first position of sub in s, 0 when it is not there
FirstAt(sub, s) ==
    IF Occurs(sub, s)
    THEN CHOOSE p \in 1..Len(s) :
           OccursAt(sub, s, p) /\ \A q \in 1..(p - 1) : ~OccursAt(sub, s, q)
    ELSE 0

\* the positions of character c in s
PositionsOf(s, c) == {p \in 1..Len(s) : s[p] = c}

\* no character of Special is in s but the ampersand that opens an entity
IsEscaped(s) ==
    \A p \in 1..Len(s) :
        s[p] \in Special =>
            s[p] = "&" /\ \E e \in Entities : OccursAt(e, s, p)

\* the positions that lie inside an occurrence of one of the texts in subs
Covered(s, subs) ==
    {p \in 1..Len(s) :
        \E k \in 1..Len(subs), q \in 1..p :
            OccursAt(subs[k], s, q) /\ p < q + Len(subs[k])}

\* the slots that hold a math span: the span as it was written
MathSlots == SelectSeq(slots, LAMBDA sl : sl[1] = "$")

\* C1: when parseInline has returned, every <, >, &, " and ' of the text
\* outside an inline math span is in the output as its entity only: the
\* output holds no such raw character outside a restored math span.
C1_LiteralTextIsEscaped ==
    pc = "returned" =>
        \A p \in 1..Len(html) :
            (html[p] \in Special /\ p \notin Covered(html, MathSlots)) =>
                html[p] = "&" /\ \E e \in Entities : OccursAt(e, html, p)

\* The one code span and the one math span of a text, when it has exactly
\* two backticks and exactly two dollar signs: their first and last
\* positions.
Ticks == PositionsOf(source, BT)
Dollars == PositionsOf(source, "$")
Least(S) == CHOOSE p \in S : \A q \in S : p <= q
Most(S) == CHOOSE p \in S : \A q \in S : q <= p

\* the text keeps to one line and holds no NUL
PlainLine == \A p \in 1..Len(source) : source[p] \notin {NUL, NL, "\r"}

\* exactly one code span, nothing else protected
OneCodeSpan ==
    /\ PlainLine /\ Cardinality(Ticks) = 2 /\ Dollars = {}
    /\ Most(Ticks) > Least(Ticks) + 1

\* exactly one math span, its dollar signs outside every code span: each
\* backtick of the text lies between them
OneMathSpan ==
    /\ PlainLine /\ Cardinality(Dollars) = 2
    /\ Most(Dollars) > Least(Dollars) + 1
    /\ \A t \in Ticks : Least(Dollars) < t /\ t < Most(Dollars)

\* what is written between the first and the last position of S
Between(S) == SubSeq(source, Least(S) + 1, Most(S) - 1)

\* C2: in the output of parseInline the content of an inline code span is
\* HTML-escaped, and an inline math span is there exactly as the source
\* has it, dollar signs included.
C2_CodeEscapedMathVerbatim ==
    pc = "returned" =>
        /\ OneCodeSpan =>
             /\ IsEscaped(escapeHtml(Between(Ticks)))
             /\ Occurs(<<"<code>">> \o escapeHtml(Between(Ticks))
                         \o <<"</code>">>, html)
        /\ OneMathSpan =>
             Occurs(<<"$">> \o Between(Dollars) \o <<"$">>, html)

\* the markup steps 3 to 7 of parseInline write
InlineMarkup ==
    { "<strong>", "</strong>", "<em>", "</em>", "<del>", "</del>",
      "<strong><em>", "</em></strong>", "<a href=\"", "\">", "</a>",
      "\" target=\"_blank\" rel=\"noopener noreferrer\">" }

\* one code span and one math span, apart from each other or the code
\* span between the dollar signs
CodeAndMath ==
    /\ PlainLine /\ Cardinality(Ticks) = 2 /\ Cardinality(Dollars) = 2
    /\ Most(Ticks) > Least(Ticks) + 1 /\ Most(Dollars) > Least(Dollars) + 1
    /\ \/ Most(Ticks) < Least(Dollars)
       \/ Most(Dollars) < Least(Ticks)
       \/ Least(Dollars) < Least(Ticks) /\ Most(Ticks) < Most(Dollars)

\* the code span as the output is to hold it
CodeHtml == <<"<code>">> \o escapeHtml(Between(Ticks)) \o <<"</code>">>

\* C3: for a text with a code span and a math span, the protected spans
\* are kept from steps 3 to 7 and restored after them: the output holds
\* the code span and the math content, in the order of the source, and no
\* emphasis, strikethrough or link markup stands inside either.
C3_SpansProtectedAndRestored ==
    (pc = "returned" /\ CodeAndMath) =>
        /\ Occurs(CodeHtml, html)
        /\ Most(Ticks) < Least(Dollars) =>
             /\ Occurs(<<"$">> \o Between(Dollars) \o <<"$">>, html)
             /\ FirstAt(CodeHtml, html)
                  < FirstAt(<<"$">> \o Between(Dollars) \o <<"$">>, html)
        /\ Most(Dollars) < Least(Ticks) =>
             /\ Occurs(<<"$">> \o Between(Dollars) \o <<"$">>, html)
             /\ FirstAt(<<"$">> \o Between(Dollars) \o <<"$">>, html)
                  < FirstAt(CodeHtml, html)
        /\ (Least(Dollars) < Least(Ticks) /\ Most(Ticks) < Most(Dollars)) =>
             /\ html[1] = "$" /\ html[Len(html)] = "$"
             /\ FirstAt(CodeHtml, html) > 1
        /\ \A k \in 1..Len(slots) : \A p \in 1..Len(slots[k]) :
             slots[k][p] \notin InlineMarkup

-----------------------------------------------------------------------------
(* Properties of parseBlocks, stated on Spec.                              *)

\* the tests of the main loop in the order the specification lists them
TestOrder ==
    << "blank", "fenced", "mathBlock", "mathLine", "code", "h4", "h3", "h2",
       "rule", "quote", "ul", "ol", "table", "paragraph" >>

\* the trimmed line t passes the test named b; every line passes the last
Passes(b, t) ==
    CASE b = "blank" -> IsBlank(t)
      [] b = "fenced" -> IsFencedOpen(t)
      [] b = "mathBlock" -> IsMathOpen(t)
      [] b = "mathLine" -> IsMathLine(t)
      [] b = "code" -> IsCodeOpen(t)
      [] b = "h4" -> IsHeading(t, 4)
      [] b = "h3" -> IsHeading(t, 3)
      [] b = "h2" -> IsHeading(t, 2)
      [] b = "rule" -> IsRule(t)
      [] b = "quote" -> IsQuote(t)
      [] b = "ul" -> IsUnordered(t)
      [] b = "ol" -> IsOrdered(t)
      [] b = "table" -> IsTableRow(t)
      [] OTHER -> TRUE

\* the first test of the order that t passes
FirstMatch(t) ==
    TestOrder[CHOOSE k \in 1..Len(TestOrder) :
                /\ Passes(TestOrder[k], t)
                /\ \A j \in 1..(k - 1) : ~Passes(TestOrder[j], t)]

\* C4: every iteration of the main loop takes exactly one branch, the one
\* of the first test in the fixed order that the trimmed line passes: the
\* state after the iteration is the state that branch alone leads to.
C4_FirstMatchWins ==
    [][(pc = "loop" /\ pc' = "loop") =>
          LET b == FirstMatch(Trim(Line(lines, i)))
          IN  /\ branch' = b
              /\ Cur' = Branch(b, Cur, parseBlocks(NestedSource(Cur)))]_vars

\* a line handled by the rule branch has been passed by the eight tests
\* before it and would pass none of the later ones but the paragraph's
C4_Witness ==
    /\ pc = "loop" /\ branch = "rule" /\ i >= 1
    /\ Cardinality({k \in 1..Len(TestOrder) :
                      Passes(TestOrder[k], Trim(Line(lines, i - 1)))}) = 2

\* line l closes a block opened by branch b
Closes(b, l) ==
    CASE b = "fenced" -> IsFenceClose(l)
      [] b = "code" -> IsCodeClose(l)
      [] b = "mathBlock" -> IsMathClose(l)
      [] OTHER -> FALSE

\* the line the last emitted block began on
LastStart == starts[Len(starts)]

\* the last iteration opened a container, a code block or a math block and
\* no line after the opening line closes it
Unterminated ==
    /\ pc \in {"loop", "returned"}
    /\ branch \in {"fenced", "code", "mathBlock"}
    /\ starts # <<>>
    /\ \A j \in (LastStart + 1)..(Len(lines) - 1) :
         ~Closes(branch, Line(lines, j))

\* all the lines after the opening line, joined
Remainder == Join(SubSeq(lines, LastStart + 2, Len(lines)), <<NL>>)

\* the block an unterminated opening line is to give
UnterminatedBlock ==
    LET t == Trim(Line(lines, LastStart))
        k == SkipIn(t, 4, WordChar)
        lang == Trim(Slice(t, 3))
    IN  CASE branch = "fenced" ->
               RenderFenced(SubSeq(t, 4, k - 1), Trim(DotStar(t, k)),
                            Remainder, parseBlocks(Remainder))
          [] branch = "code" ->
               (IF lang # <<>>
                THEN <<"<pre><code class=\"language-">> \o escapeHtml(lang)
                       \o <<"\">">>
                ELSE <<"<pre><code>">>)
                 \o escapeHtml(Remainder) \o <<"</code></pre>">>
          [] OTHER ->
               <<"<div class=\"math-block\">", "$", "$">> \o Remainder
                 \o <<"$", "$", "</div>">>

\* C5: a container, a code block or a math block with no closing line
\* takes every remaining line as its interior and is rendered from them;
\* the loop is over after it, nothing is emitted after the block, and
\* parse returns the joined output.
C5_UnterminatedBlockRunsToEnd ==
    Unterminated =>
        /\ i = Len(lines) + 1
        /\ paragraphLines = <<>>
        /\ Len(output) = Len(starts)
        /\ output[Len(output)] = UnterminatedBlock
        /\ pc = "returned" => html = Join(output, <<NL>>)

\* parse has returned from a document whose container is never closed and
\* has lines after its opening line
C5_Witness ==
    /\ Unterminated /\ pc = "returned" /\ branch = "fenced"
    /\ Len(lines) >= LastStart + 3
    /\ Occurs(<<"<h3>">>, output[Len(output)])
    /\ Occurs(<<"<hr>">>, output[Len(output)])

\* line l belongs to a run of the kind branch b consumes
InRun(b, l) ==
    CASE b = "quote" -> IsQuote(Trim(l))
      [] b = "ul" -> IsUnordered(Trim(l))
      [] b = "ol" -> IsOrdered(Trim(l))
      [] b = "table" -> IsTableRow(Trim(l))
      [] OTHER -> FALSE

\* the cursor went from a to b by one forward scan of branch k: of a
\* block with a closing line, past the lines that do not close it and
\* past the closing line or the end; of a run, past the lines of the run
\* and no further; of any other branch, past one line
ForwardScan(k, a, b) ==
    CASE k \in {"fenced", "code", "mathBlock"} ->
           /\ \A j \in (a + 1)..(b - 2) : ~Closes(k, Line(lines, j))
           /\ IF b - 1 < Len(lines) THEN Closes(k, Line(lines, b - 1))
              ELSE b = Len(lines) + 1
      [] k \in {"quote", "ul", "ol", "table"} ->
           /\ \A j \in a..(b - 1) : InRun(k, Line(lines, j))
           /\ b <= Len(lines)
           /\ b < Len(lines) => ~InRun(k, Line(lines, b))
      [] OTHER -> b = a + 1

\* C6: every iteration of the main loop moves the cursor forward by at
\* least one line and never past the line after the last; the lines an
\* iteration consumes are one forward scan that stops at the closing line,
\* at the end of its run or at the end of the input.  The distance to the
\* end shrinks on every iteration, so the loop ends.
C6_CursorAdvances ==
    [][(pc = "loop" /\ pc' = "loop") =>
          /\ i' > i
          /\ i' <= Len(lines) + 1
          /\ ForwardScan(branch', i, i')]_vars

\* an iteration has consumed a run of three lines and the loop is over
C6_Witness ==
    /\ pc = "loop" /\ branch \in {"quote", "ul", "ol", "table"}
    /\ starts = <<0>> /\ i = 3 /\ Len(lines) = 3

\* the markup a block of branch b, begun on the trimmed line t, opens with
Opening(b, t) ==
    CASE b = "fenced" ->
           {RenderFenced(SubSeq(t, 4, SkipIn(t, 4, WordChar) - 1),
                         <<>>, <<>>, <<>>)[1]}
      [] b \in {"mathBlock", "mathLine"} -> {"<div class=\"math-block\">"}
      [] b = "code" -> {"<pre><code>", "<pre><code class=\"language-"}
      [] b = "h4" -> {"<h4>"}
      [] b = "h3" -> {"<h3>"}
      [] b = "h2" -> {"<h2>"}
      [] b = "rule" -> {"<hr>"}
      [] b = "quote" -> {"<blockquote>"}
      [] b = "ul" -> {"<ul>"}
      [] b = "ol" -> {"<ol>"}
      [] b = "table" -> {"<table>\n  <thead><tr>"}
      [] b = "paragraph" -> {"<p>"}
      [] OTHER -> {}

\* C10: the output holds one block for each line that began a block, in
\* the order of those lines, each of the kind its first line gives, with
\* none moved, merged or dropped; after an iteration of any branch but the
\* paragraph's the accumulator is empty, and a paragraph begun after the
\* last emitted block is still pending; when parseBlocks returns, the
\* accumulator is empty and the result is the blocks joined in that order.
C10_BlocksInSourceOrder ==
    pc \in {"loop", "returned"} =>
        /\ Len(output) = Len(starts)
        /\ \A k \in 1..(Len(starts) - 1) : starts[k] < starts[k + 1]
        /\ \A k \in 1..Len(starts) :
             /\ starts[k] \in 0..(Len(lines) - 1)
             /\ output[k] # <<>>
             /\ output[k][1] \in Opening(BranchOf(Line(lines, starts[k])),
                                         Trim(Line(lines, starts[k])))
        /\ branch \notin {"none", "paragraph"} => paragraphLines = <<>>
        /\ paragraphLines # <<>> =>
             /\ paraStart \in 0..(i - 1)
             /\ starts # <<>> => LastStart < paraStart
        /\ pc = "returned" =>
             /\ paragraphLines = <<>>
             /\ html = Join(output, <<NL>>)

\* a paragraph, flushed by the heading after it, and a paragraph pending
\* at the end of the input, flushed last
C10_Witness ==
    /\ pc = "returned" /\ starts = <<0, 1, 2>>
    /\ output[1][1] = "<p>" /\ output[2][1] = "<h3>" /\ output[3][1] = "<p>"

-----------------------------------------------------------------------------
(* Properties of parseFrontmatter, stated on SpecFrontmatter.              *)

\* the first line of the input
FirstLine == SubSeq(source, 1, SkipNot(source, 1, {NL}) - 1)

\* the input opens a frontmatter block
Opens == Trim(FirstLine) = Dashes

\* the position of the first colon of a line, 0 when it has none
Colon(l) == IF ":" \in {l[p] : p \in 1..Len(l)} THEN Least(PositionsOf(l, ":")) ELSE 0

\* the line is `identifier: value`
WellFormed(l) ==
    Colon(l) > 1 /\ \A p \in 1..(Colon(l) - 1) : l[p] \in WordChar

KeyOf(l) == SubSeq(l, 1, Colon(l) - 1)

ValueOf(l) == Trim(SubSeq(l, Colon(l) + 1, Len(l)))

\* the value the rules of the specification give a key/value pair
Coerced(key, val) ==
    IF key = <<"t", "a", "g", "s">>
    THEN [t |-> "list",
          v |-> SelectSeq(TrimAll(Split(val, ",")), LAMBDA seg : seg # <<>>)]
    ELSE IF val = <<"t", "r", "u", "e">> \/ val = <<"f", "a", "l", "s", "e">>
    THEN [t |-> "bool", v |-> <<val>>]
    ELSE [t |-> "str", v |-> <<val>>]

\* the last line of the block the scan has passed: lines 1 to Scanned
Scanned == IF pc = "fm_scan" THEN i - 1 ELSE i - 2

\* the scanned lines that give a value to key
LinesOf(key) ==
    {j \in 1..Scanned : WellFormed(Line(lines, j)) /\ KeyOf(Line(lines, j)) = key}

\* C7: every value of the metadata is the value of the last scanned line
\* with its key, coerced by the rules in order: the list of trimmed,
\* non-empty comma segments for tags; else the boolean for exactly true or
\* false; else the trimmed string.
C7_Coercion ==
    pc \in {"fm_scan", "fm_return", "fm_returned"} =>
        \A key \in DOMAIN meta :
            /\ LinesOf(key) # {}
            /\ meta[key] = Coerced(key, ValueOf(Line(lines, Most(LinesOf(key)))))

\* `featured: true` and `tags: a, b , c` have given the boolean true and
\* the list [a, b, c]
C7_Witness ==
    /\ pc = "fm_returned"
    /\ DOMAIN meta = {<<"f", "e", "a", "t", "u", "r", "e", "d">>, TagsKey}
    /\ meta[<<"f", "e", "a", "t", "u", "r", "e", "d">>]
         = [t |-> "bool", v |-> <<TrueStr>>]
    /\ meta[TagsKey] = [t |-> "list", v |-> << <<"a">>, <<"b">>, <<"c">> >>]

\* C8: when the trimmed first line is not ---, parseFrontmatter returns
\* no metadata and the whole input as the body, character for character.
C8_NoFrontmatterWholeBody ==
    (pc = "fm_returned" /\ ~Opens) =>
        /\ DOMAIN meta = {}
        /\ body = source

\* an input of several lines, the last one empty, has come back whole
C8_Witness ==
    /\ pc = "fm_returned" /\ ~Opens
    /\ Cardinality(PositionsOf(source, NL)) >= 2
    /\ PositionsOf(source, "a") # {}
    /\ source[Len(source)] = NL
    /\ body = source

\* the closing delimiter: the first line after the opening one that trims
\* to ---, the number of lines when there is none
Closing ==
    LET S == {j \in 1..(Len(lines) - 1) : Trim(Line(lines, j)) = Dashes}
    IN  IF S = {} THEN Len(lines) ELSE Least(S)

\* C9: a frontmatter block with a line that is not `identifier: value`
\* is scanned to its closing delimiter: every well-formed line of the
\* block, before and after that line, has its key in the metadata, and the
\* body is the lines after the closing delimiter.
C9_MalformedLineSkipped ==
    (/\ pc = "fm_returned" /\ Opens
     /\ \E j \in 1..(Closing - 1) : ~WellFormed(Line(lines, j))) =>
        /\ \A j \in 1..(Closing - 1) :
             WellFormed(Line(lines, j)) => KeyOf(Line(lines, j)) \in DOMAIN meta
        /\ body = Join(SubSeq(lines, Closing + 2, Len(lines)), <<NL>>)

-----------------------------------------------------------------------------
(* Properties of the custom containers, stated on Spec.                    *)

\* the kinds of container the switch names
Kinds ==
    { <<"s", "u", "m", "m", "a", "r", "y">>, <<"n", "o", "t", "i", "c", "e">>,
      <<"i", "n", "f", "o", "b", "o", "x">>,
      <<"d", "r", "o", "p", "d", "o", "w", "n">>,
      <<"d", "e", "s", "m", "o", "s">>, <<"f", "i", "g", "u", "r", "e">>,
      <<"c", "i", "t", "a", "t", "i", "o", "n", "s">>,
      <<"d", "a", "t", "a", "b", "a", "s", "e">>, <<"q", "u", "o", "t", "e">> }

\* the markup a container block opens with, of a named kind or generic
ContainerOpenings ==
    {RenderFenced(k, <<>>, <<>>, <<>>)[1] : k \in Kinds \cup {<<"x">>}}

\* the trimmed line is ::: with an identifier right after it
OpensContainer(t) ==
    Len(t) >= 4 /\ SubSeq(t, 1, 3) = <<":", ":", ":">> /\ t[4] \in WordChar

\* the iteration has pushed a container block
PushedContainer ==
    /\ Len(output') > Len(output)
    /\ output'[Len(output')] # <<>>
    /\ output'[Len(output')][1] \in ContainerOpenings

\* C11: an iteration pushes a container block only on a line whose
\* trimmed text is ::: followed at once by an identifier; the iteration
\* that opens a container moves the cursor past its closing ::: line and
\* renders the lines before that line only; a line that is only ::: in the main loop
\* opens no container: it is paragraph text.
C11_ContainerOnlyFromOpeningLine ==
    [][(pc = "loop" /\ pc' = "loop") =>
          LET t == Trim(Line(lines, i))
              closers == {j \in (i + 1)..(Len(lines) - 1) :
                            Trim(Line(lines, j)) = <<":", ":", ":">>}
          IN  /\ PushedContainer => OpensContainer(t)
              /\ OpensContainer(t) =>
                   /\ PushedContainer
                   /\ closers # {} =>
                        LET inner == Join(SubSeq(lines, i + 2, Least(closers)),
                                          <<NL>>)
                            k == SkipIn(t, 4, WordChar)
                        IN  /\ i' = Least(closers) + 1
                            /\ output'[Len(output')]
                                 = RenderFenced(SubSeq(t, 4, k - 1),
                                                Trim(DotStar(t, k)), inner,
                                                parseBlocks(inner))
              /\ t = <<":", ":", ":">> =>
                   /\ branch' = "paragraph"
                   /\ output' = output]_vars

\* a container has been closed by its ::: line and the ::: line after it,
\* met with no container open, is paragraph text
C11_Witness ==
    /\ pc = "returned" /\ Len(lines) = 3 /\ Len(output) = 2
    /\ output[1][1] \in ContainerOpenings
    /\ output[2] = <<"<p>", ":", ":", ":", "</p>">>

-----------------------------------------------------------------------------
(* Properties of the container dispatch, stated on SpecContainer.          *)

\* the opening line, its kind and its parameters
OpeningLine == Trim(Line(lines, 0))
KindOf(t) == SubSeq(t, 4, SkipIn(t, 4, WordChar) - 1)
ParamsOf(t) == Trim(SubSeq(t, SkipIn(t, 4, WordChar), Len(t)))

\* the raw interior: the lines after the opening line, up to the first
\* line that is only :::
Interior ==
    LET S == {j \in 1..(Len(lines) - 1) : Trim(Line(lines, j)) = <<":", ":", ":">>}
    IN  Join(SubSeq(lines, 2, IF S = {} THEN Len(lines) ELSE Least(S)), <<NL>>)

\* the generic container of a kind
Generic(kind, content) ==
    <<"<div class=\"wmd-">> \o escapeHtml(kind) \o <<"\">">> \o content
      \o <<"</div>">>

\* markup that only block parsing of the interior can give
BlockMarkup == {"<h2>", "<p>", "<ol>", "<table>\n  <thead><tr>"}

HasBlockMarkup(s) == \E p \in 1..Len(s) : s[p] \in BlockMarkup

\* C12: the block of a container is chosen by the exact name of its kind:
\* summary, notice, dropdown and quote render the block-parsed interior;
\* infobox, desmos and citations render the raw interior with no block
\* parsing; figure and database render the parameters only; every other
\* kind gives the generic container of that kind around the block-parsed
\* interior.
C12_DispatchByKind ==
    (pc \in {"loop", "returned"} /\ branch = "fenced") =>
        LET kind == KindOf(OpeningLine)
            params == ParamsOf(OpeningLine)
            parsed == parseBlocks(Interior)
            block == output[1]
        IN  /\ Len(output) = 1
            /\ kind = <<"s", "u", "m", "m", "a", "r", "y">> =>
                 block = renderSummaryBlock(parsed)
            /\ kind = <<"n", "o", "t", "i", "c", "e">> =>
                 block = renderNoticeBlock(parsed)
            /\ kind = <<"d", "r", "o", "p", "d", "o", "w", "n">> =>
                 block = renderDropdownBlock(params, parsed)
            /\ kind = <<"q", "u", "o", "t", "e">> =>
                 block = renderQuoteBlock(params, parsed)
            /\ kind = <<"i", "n", "f", "o", "b", "o", "x">> =>
                 block = renderInfoboxBlock(params, Interior)
                   /\ ~HasBlockMarkup(block)
            /\ kind = <<"d", "e", "s", "m", "o", "s">> =>
                 block = renderDesmosBlock(params, Interior)
                   /\ ~HasBlockMarkup(block)
            /\ kind = <<"c", "i", "t", "a", "t", "i", "o", "n", "s">> =>
                 block = renderCitationsBlock(Interior)
                   /\ ~HasBlockMarkup(block)
            /\ kind = <<"f", "i", "g", "u", "r", "e">> =>
                 block = renderFigureBlock(params)
            /\ kind = <<"d", "a", "t", "a", "b", "a", "s", "e">> =>
                 block = renderDatabaseBlock(params)
            /\ kind \notin Kinds => block = Generic(kind, parsed)

\* a container of a kind the switch does not name, and one whose kind is
\* Summary with a capital, have come out generic with a parsed heading
C12_Witness ==
    /\ pc = "returned" /\ branch = "fenced"
    /\ KindOf(OpeningLine) = <<"S", "u", "m", "m", "a", "r", "y">>
    /\ html[1] = "<div class=\"wmd-"
    /\ Occurs(<<"<h2>", "h", "</h2>">>, html)

-----------------------------------------------------------------------------
(* Properties of the inline rewriting steps, stated on SpecInline.         *)

\* a run of k asterisks
Stars(k) == [p \in 1..k |-> "*"]

\* the characters that no step of parseInline looks for or escapes
PlainText(x) ==
    /\ x # <<>>
    /\ \A p \in 1..Len(x) :
         x[p] \notin Special \cup {"*", "~", "[", "]", "(", ")", BT, "$",
                                  NUL, NL, "\r"}

\* the source is x between two runs of k asterisks
Emphasised(k) ==
    /\ Len(source) > 2 * k
    /\ SubSeq(source, 1, k) = Stars(k)
    /\ SubSeq(source, Len(source) - k + 1, Len(source)) = Stars(k)
    /\ PlainText(SubSeq(source, k + 1, Len(source) - k))

Emphasis(k) == SubSeq(source, k + 1, Len(source) - k)

\* C13: the triple-asterisk form is rewritten before the double and the
\* double before the single: ***x*** gives strong around em around x,
\* **x** gives strong, *x* gives em, and the output keeps no asterisk,
\* so no asterisk of a longer form is matched again by a shorter one.
C13_EmphasisPrecedence ==
    pc = "returned" =>
        /\ Emphasised(3) =>
             html = <<"<strong><em>">> \o Emphasis(3) \o <<"</em></strong>">>
        /\ Emphasised(2) =>
             html = <<"<strong>">> \o Emphasis(2) \o <<"</strong>">>
        /\ Emphasised(1) =>
             html = <<"<em>">> \o Emphasis(1) \o <<"</em>">>

\* ***bold-italic*** has come out as strong around em
C13_Witness ==
    /\ pc = "returned" /\ Emphasised(3)
    /\ html[1] = "<strong><em>" /\ html[Len(html)] = "</em></strong>"
    /\ Len(html) = Len(source) - 4

\* text without delimiters, possibly empty
PlainOrEmpty(x) == x = <<>> \/ PlainText(x)

\* the source is plain text around one [x](u) with plain x and u; the
\* brackets are then the only ones of the source
OneLink ==
    /\ \A c \in {"[", "]", "(", ")"} : Cardinality(PositionsOf(source, c)) = 1
    /\ LET p == Least(PositionsOf(source, "["))
           q == Least(PositionsOf(source, "]"))
           r == Least(PositionsOf(source, ")"))
       IN  /\ p < q /\ Least(PositionsOf(source, "(")) = q + 1 /\ q + 1 < r
           /\ PlainOrEmpty(SubSeq(source, 1, p - 1))
           /\ PlainText(SubSeq(source, p + 1, q - 1))
           /\ PlainText(SubSeq(source, q + 2, r - 1))
           /\ PlainOrEmpty(SubSeq(source, r + 1, Len(source)))

LinkText ==
    SubSeq(source, Least(PositionsOf(source, "[")) + 1,
           Least(PositionsOf(source, "]")) - 1)

LinkUrl ==
    SubSeq(source, Least(PositionsOf(source, "(")) + 1,
           Least(PositionsOf(source, ")")) - 1)

HasScheme(u) ==
    \/ Len(u) >= 7 /\ SubSeq(u, 1, 7) = <<"h", "t", "t", "p", ":", "/", "/">>
    \/ Len(u) >= 8 /\ SubSeq(u, 1, 8) = <<"h", "t", "t", "p", "s", ":", "/", "/">>

\* C14: a link [x](u) becomes an anchor with href u and content x, the text
\* around it unchanged; the anchor has target and rel attributes exactly
\* when u begins with http:// or https://, and no further attribute
\* otherwise.
C14_LinkAnchor ==
    (pc = "returned" /\ OneLink) =>
        html = SubSeq(source, 1, Least(PositionsOf(source, "[")) - 1)
                 \o <<"<a href=\"">> \o LinkUrl
                 \o <<IF HasScheme(LinkUrl)
                      THEN "\" target=\"_blank\" rel=\"noopener noreferrer\">"
                      ELSE "\">">>
                 \o LinkText \o <<"</a>">>
                 \o SubSeq(source, Least(PositionsOf(source, ")")) + 1, Len(source))

\* an https link inside plain text has come out with the attributes
C14_Witness ==
    /\ pc = "returned" /\ OneLink
    /\ StartsWith(LinkUrl, <<"h", "t", "t", "p", "s">>)
    /\ html[1] = "a" /\ html[Len(html)] = "b"
    /\ \E p \in 1..Len(html) : html[p] = "\" target=\"_blank\" rel=\"noopener noreferrer\">"

\* the characters the steps of parseInline look for
Delimiters == {"*", "~", "[", "]", "(", ")", BT, "$", NUL}

NoDelimiter(x) == \A p \in 1..Len(x) : x[p] \notin Delimiters \cup {NL, "\r"}

\* the openers that stand by themselves
Openers == {<<"*", "*">>, <<"*">>, <<"~", "~">>, <<BT>>, <<"$">>}

\* the delimiter characters of the source are those of one opener:
\* **, *, ~~, a backtick, a dollar sign, or [x]( with nothing closing it
UnmatchedOpener ==
    \/ \E o \in Openers, p \in 1..Len(source) :
          /\ OccursAt(o, source, p)
          /\ NoDelimiter(SubSeq(source, 1, p - 1))
          /\ NoDelimiter(SubSeq(source, p + Len(o), Len(source)))
    \/ \E p \in 1..Len(source), q \in 1..Len(source) :
          /\ p + 1 < q /\ source[p] = "["
          /\ OccursAt(<<"]", "(">>, source, q)
          /\ NoDelimiter(SubSeq(source, 1, p - 1))
          /\ NoDelimiter(SubSeq(source, p + 1, q - 1))
          /\ NoDelimiter(SubSeq(source, q + 2, Len(source)))

\* C15: parseInline is at one of its eight steps or has returned a text,
\* whatever the input; a text whose delimiter characters are one opener
\* without a closer comes back as it was given.
C15_UnmatchedPassesThrough ==
    /\ pc \in {"code", "math", "boldItalic", "bold", "italic", "strike",
               "links", "restore", "returned"}
    /\ pc = "returned" => DOMAIN html = 1..Len(html)
    /\ (pc = "returned" /\ UnmatchedOpener) => html = source

\* a text with an unclosed [t]( and a text with an unclosed ~~ have
\* been returned unchanged
C15_Witness ==
    /\ pc = "returned" /\ UnmatchedOpener /\ html = source
    /\ Len(source) > 4
    /\ \/ OccursAt(<<"[", "t", "]", "(">>, source, 3)
       \/ OccursAt(<<"~", "~">>, source, 3)

-----------------------------------------------------------------------------
(* Properties of tables and lists, stated on SpecRuns.                     *)

\* the n-th smallest number of S
Nth(S, n) == CHOOSE x \in S : Cardinality({y \in S : y < x}) = n - 1

\* the numbers of S in increasing order
Sorted(S) == [n \in 1..Cardinality(S) |-> Nth(S, n)]

\* the first line from n on (counted from 0) that is not P, or the end
RunEnd(n, P(_)) ==
    Least({j \in n..Len(lines) : j = Len(lines) \/ ~P(Trim(Line(lines, j)))})

TableLine(t) == t # <<>> /\ t[1] = "|"

\* only dashes, colons, pipes and whitespace, and at least one of them,
\* between a leading and a trailing pipe
SeparatorLine(t) ==
    /\ Len(t) >= 3 /\ t[1] = "|" /\ t[Len(t)] = "|"
    /\ \A k \in 2..(Len(t) - 1) : t[k] \in {"-", ":", "|", " ", "\t"}

\* the lines of the run at the cursor that are no separator lines
Remaining ==
    Sorted({j \in i..(RunEnd(i, TableLine) - 1) :
              ~SeparatorLine(Trim(Line(lines, j)))})

\* the cells of line j, each between open and close
Cells(j, open, close) ==
    LET cols == parseCols(Line(lines, j))
    IN  Concat([k \in 1..Len(cols) |->
                  <<open>> \o parseInline(cols[k]) \o <<close>>])

\* the table with the first of rows as header and the others as body rows
TableOf(rows) ==
    <<"<table>\n  <thead><tr>">> \o Cells(rows[1], "<th>", "</th>")
      \o <<"</tr></thead>\n  <tbody>">>
      \o Join([k \in 1..(Len(rows) - 1) |->
                 <<"<tr>">> \o Cells(rows[k + 1], "<td>", "</td>")
                   \o <<"</tr>">>], <<NL>>)
      \o <<"</tbody>\n</table>">>

\* C16: an iteration on a line that starts with | consumes the whole run
\* of such lines and pushes one block: the table whose header is the first
\* line of the run that is no separator line and whose body rows are the
\* other such lines in source order; separator lines give no row, and a
\* run of separator lines only gives an empty block.
C16_TableRows ==
    [][(pc = "loop" /\ pc' = "loop" /\ i < Len(lines)
          /\ TableLine(Trim(Line(lines, i)))) =>
          /\ i' = RunEnd(i, TableLine)
          /\ Len(output') > 0
          /\ output'[Len(output')] =
               IF Remaining = <<>> THEN <<>> ELSE TableOf(Remaining)]_vars

\* header, separator, body row: a table with one header cell pair and one
\* body row
C16_Witness ==
    /\ pc = "returned" /\ Len(lines) = 3 /\ Len(output) = 1
    /\ SeparatorLine(Trim(Line(lines, 1)))
    /\ Cardinality(PositionsOf(html, "<th>")) = 2
    /\ Cardinality(PositionsOf(html, "<tr>")) = 1
    /\ Cardinality(PositionsOf(html, "<td>")) = 1

\* a dash or an asterisk, then a space
BulletLine(t) == Len(t) >= 2 /\ t[1] \in {"-", "*"} /\ t[2] = " "

\* digits, a full stop, then a space
Numerals == {"0", "1", "2", "3", "4", "5", "6", "7", "8", "9"}

MarkerEnd(t) ==
    Least({k \in 1..(Len(t) + 1) : k = Len(t) + 1 \/ t[k] \notin Numerals})

NumberedLine(t) ==
    /\ MarkerEnd(t) > 1 /\ MarkerEnd(t) < Len(t)
    /\ t[MarkerEnd(t)] = "." /\ t[MarkerEnd(t) + 1] = " "

\* block b is one list between open and close with n items
ListOf(b, open, close, n) ==
    /\ n >= 1
    /\ b[1] = open /\ b[Len(b)] = close
    /\ Cardinality(PositionsOf(b, "<li>")) = n
    /\ Cardinality(PositionsOf(b, "</li>")) = n
    /\ Cardinality(PositionsOf(b, open)) = 1

\* C17: an iteration on a list item consumes the lines up to the first
\* line that is no item of the same kind, a blank line included, and
\* pushes one list with as many items as the run has lines; two unordered
\* items and then a line of text give a list of two items and, after it,
\* a separate paragraph.
C17_ListIsOneRun ==
    [][/\ (pc = "loop" /\ pc' = "loop" /\ i < Len(lines)) =>
            /\ BulletLine(Trim(Line(lines, i))) =>
                 /\ i' = RunEnd(i, BulletLine)
                 /\ Len(output') > 0
                 /\ ListOf(output'[Len(output')], "<ul>", "</ul>",
                           RunEnd(i, BulletLine) - i)
            /\ NumberedLine(Trim(Line(lines, i))) =>
                 /\ i' = RunEnd(i, NumberedLine)
                 /\ Len(output') > 0
                 /\ ListOf(output'[Len(output')], "<ol>", "</ol>",
                           RunEnd(i, NumberedLine) - i)
       /\ (pc = "loop" /\ pc' = "returned" /\ Len(lines) = 3
             /\ BulletLine(Trim(Line(lines, 0)))
             /\ BulletLine(Trim(Line(lines, 1)))
             /\ BranchOf(Line(lines, 2)) = "paragraph") =>
            /\ Len(output') = 2
            /\ ListOf(output'[1], "<ul>", "</ul>", 2)
            /\ output'[2] = <<"<p>">> \o parseInline(Trim(Line(lines, 2)))
                              \o <<"</p>">>]_vars

\* two unordered items and a line of text have given a list of two items
\* and a paragraph
C17_Witness ==
    /\ pc = "returned" /\ Len(lines) = 3
    /\ BulletLine(Trim(Line(lines, 0))) /\ BulletLine(Trim(Line(lines, 1)))
    /\ html = <<"<ul>", "<li>", "x", "</li>", "<li>", "y", "</li>", "</ul>",
                NL, "<p>", "p", "</p>">>

\* digits, then a full stop
CitationLine(t) ==
    MarkerEnd(t) > 1 /\ MarkerEnd(t) <= Len(t) /\ t[MarkerEnd(t)] = "."

\* the text of an ordered item: what follows the digits, the full stop
\* and the space
AfterMarker(t) == SubSeq(t, MarkerEnd(t) + 2, Len(t))

\* the text of a citation: what follows the digits, the full stop and
\* any whitespace
AfterCitationMarker(t) ==
    LET S == {k \in (MarkerEnd(t) + 1)..Len(t) : t[k] \notin {" ", "\t"}}
    IN  IF S = {} THEN <<>> ELSE SubSeq(t, Least(S), Len(t))

ItemOf(x) == <<"<li>">> \o parseInline(x) \o <<"</li>">>

\* the interior lines of the citations container opened on line i
CitationInterior ==
    LET S == {j \in (i + 1)..(Len(lines) - 1) : Trim(Line(lines, j)) = <<":", ":", ":">>}
    IN  (i + 1)..((IF S = {} THEN Len(lines) ELSE Least(S)) - 1)

Citations == Sorted({j \in CitationInterior : CitationLine(Trim(Line(lines, j)))})

\* C20: an ordered list has one item for each line of its run, in source
\* order, each the text after the digits, the full stop and the space; a
\* citations container has one item for each interior line that begins
\* with digits and a full stop, in source order, each the text after that
\* marker; the numbers of the markers are nowhere in the block.
C20_NumbersDiscarded ==
    [][(pc = "loop" /\ pc' = "loop" /\ i < Len(lines)) =>
          /\ NumberedLine(Trim(Line(lines, i))) =>
               /\ Len(output') > 0
               /\ output'[Len(output')] =
                    <<"<ol>">>
                      \o Concat([k \in 1..(RunEnd(i, NumberedLine) - i) |->
                                   ItemOf(AfterMarker(Trim(Line(lines, i + k - 1))))])
                      \o <<"</ol>">>
               /\ \A p \in 1..Len(output'[Len(output')]) :
                    output'[Len(output')][p] \notin Numerals
          /\ Trim(Line(lines, i)) = <<":", ":", ":", "c", "i", "t", "a", "t", "i", "o", "n", "s">> =>
               /\ Len(output') > 0
               /\ output'[Len(output')] =
                    <<"<section class=\"wiki-citations\" aria-labelledby=\"citations-heading\">\n  <h2 id=\"citations-heading\">References</h2>\n  <ol>">>
                      \o Join([k \in 1..Len(Citations) |->
                                 ItemOf(AfterCitationMarker(Trim(Line(lines, Citations[k]))))],
                              <<NL>>)
                      \o <<"</ol>\n</section>">>
               /\ \A p \in 1..Len(output'[Len(output')]) :
                    output'[Len(output')][p] \notin Numerals]_vars

\* an ordered list numbered 12, 1, 1 has come out as three items in that
\* order without the numbers
C20_Witness ==
    /\ pc = "returned" /\ Len(lines) = 3
    /\ Trim(Line(lines, 0)) = <<"1", "2", ".", " ", "z">>
    /\ html = <<"<ol>", "<li>", "z", "</li>", "<li>", "y", "</li>",
                "<li>", "y", "</li>", "</ol>">>

-----------------------------------------------------------------------------
(* Properties of parse, stated on Spec.                                    *)

\* the lines of the source, and the line (counted from 0) that closes the
\* frontmatter block the first line opens, the number of lines if none does
SourceLines == Split(source, NL)

ClosingLine ==
    Least({j \in 1..Len(SourceLines) :
             j = Len(SourceLines) \/ Trim(Line(SourceLines, j)) = <<"-", "-", "-">>})

OpensFrontmatter == Trim(Line(SourceLines, 0)) = <<"-", "-", "-">>

\* the document up to and with the closing line, and the lines after it
FrontmatterPart ==
    Join(SubSeq(SourceLines, 1, IF ClosingLine < Len(SourceLines)
                                THEN ClosingLine + 1 ELSE Len(SourceLines)),
         <<NL>>)

BodyPart == Join(SubSeq(SourceLines, ClosingLine + 2, Len(SourceLines)), <<NL>>)

\* C19: parse returns the metadata of parseFrontmatter and the result of
\* parseBlocks on the body: with a frontmatter block, the html is that of
\* the lines after the closing line alone and the metadata that of the
\* lines up to the closing line alone; without one, the metadata is empty
\* and the html that of the whole source.  The example document gives
\* title "Demo", tags x and y, one h2 "Heading" and one paragraph with
\* strong "bold" and code "code".
C19_ParseSplitsFrontmatterAndBody ==
    pc = "returned" =>
        /\ meta = parseFrontmatter(source).meta
        /\ IF OpensFrontmatter
           THEN /\ html = parseBlocks(BodyPart)
                /\ meta = parseFrontmatter(FrontmatterPart).meta
           ELSE /\ html = parseBlocks(source)
                /\ meta = EmptyMeta
        /\ source = ExampleDoc =>
             /\ DOMAIN meta = {<<"t", "i", "t", "l", "e">>, <<"t", "a", "g", "s">>}
             /\ meta[<<"t", "i", "t", "l", "e">>] =
                  [t |-> "str", v |-> <<<<"D", "e", "m", "o">>>>]
             /\ meta[<<"t", "a", "g", "s">>] =
                  [t |-> "list", v |-> <<<<"x">>, <<"y">>>>]
             /\ html = <<"<h2>", "H", "e", "a", "d", "i", "n", "g", "</h2>", NL,
                         "<p>", "S", "o", "m", "e", " ", "<strong>", "b", "o",
                         "l", "d", "</strong>", " ", "a", "n", "d", " ",
                         "<code>", "c", "o", "d", "e", "</code>", ".", "</p>">>

\* the example document has been parsed
C19_Witness ==
    /\ pc = "returned" /\ source = ExampleDoc
    /\ Cardinality(DOMAIN meta) = 2
    /\ Cardinality(PositionsOf(html, "<h2>")) = 1
    /\ Cardinality(PositionsOf(html, "<p>")) = 1

-----------------------------------------------------------------------------
(* Properties of successive calls, stated on SpecCalls.                    *)

\* C18: whatever calls were made before, a call of parseInline begins with
\* an empty slot store and the text it was given, a call of parse begins
\* its loop with an empty output and an empty accumulator, and what a call
\* returns is a function of its source alone; a placeholder written in one
\* paragraph is not filled from the slot of a code span of another.
C18_NoStateBetweenCalls ==
    /\ pc = "code" => slots = <<>> /\ text = source
    /\ (pc = "loop" /\ i = 0) => output = <<>> /\ paragraphLines = <<>>
    /\ (pc = "returned" /\ branch = "none") => html = parseInline(source)
    /\ (pc = "returned" /\ branch # "none") =>
         /\ meta = parseFrontmatter(source).meta
         /\ html = parseBlocks(parseFrontmatter(source).body)
    /\ (pc = "returned" /\ source = PlaceholderDoc) =>
         html = <<"<p>", "<code>", "x", "</code>", "</p>", NL,
                  "<p>", "undefined", "</p>">>

\* a later call of parse has returned the document with the placeholder
C18_Witness ==
    /\ pc = "returned" /\ source = PlaceholderDoc
    /\ Occurs(<<"<code>", "x", "</code>">>, html)
    /\ Occurs(<<"undefined">>, html)

-----------------------------------------------------------------------------
(* Properties of the desmos, figure, database and infobox containers,      *)
(* stated on SpecContainer.                                                *)

\* the container on line 0 has been rendered and is of the given kind
Rendered(kind) ==
    /\ pc \in {"loop", "returned"} /\ branch = "fenced"
    /\ KindOf(OpeningLine) = kind

\* the parameters of the opening line, before and after their first pipe
Params == ParamsOf(OpeningLine)

HasPipe == PositionsOf(Params, "|") # {}

FirstPart ==
    Trim(IF HasPipe THEN SubSeq(Params, 1, Least(PositionsOf(Params, "|")) - 1)
         ELSE Params)

SecondPart ==
    IF HasPipe
    THEN Trim(SubSeq(Params, Least(PositionsOf(Params, "|")) + 1, Len(Params)))
    ELSE <<>>

\* the interior lines: those after the opening line, up to the closing one
InteriorLines ==
    LET S == {j \in 1..(Len(lines) - 1) : Trim(Line(lines, j)) = <<":", ":", ":">>}
    IN  SubSeq(lines, 2, IF S = {} THEN Len(lines) ELSE Least(S))

\* the decimal numeral of the integer a height part begins with (a sign,
\* then digits, leading zeros dropped), <<>> when it begins with none or
\* with zero
HeightNumeral(h) ==
    LET neg == h # <<>> /\ h[1] = "-"
        d == IF neg THEN Tail(h) ELSE h
        e == MarkerEnd(d)
        nz == {k \in 1..(e - 1) : d[k] # "0"}
    IN  IF nz = {} THEN <<>>
        ELSE (IF neg THEN <<"-">> ELSE <<>>) \o SubSeq(d, Least(nz), e - 1)

\* C21: a desmos container gives one element whose data-height is the
\* integer the height part begins with, 400 when there is none or it is 0,
\* whose data-label is the label part, "Interactive Graph" when no label is
\* given, whose data-expressions is the first interior line, [] when there
\* is none, and which has data-bounds, the second interior line, exactly
\* when there is one.
C21_DesmosDefaults ==
    Rendered(<<"d", "e", "s", "m", "o", "s">>) =>
        output[1] =
            <<"<div class=\"desmos-container\" data-height=\"">>
              \o (IF HeightNumeral(FirstPart) = <<>> THEN <<"4", "0", "0">>
                  ELSE HeightNumeral(FirstPart))
              \o <<"\" data-label=\"">>
              \o (IF SecondPart = <<>>
                  THEN <<"I", "n", "t", "e", "r", "a", "c", "t", "i", "v", "e",
                         " ", "G", "r", "a", "p", "h">>
                  ELSE escapeHtml(SecondPart))
              \o <<"\" data-expressions='">>
              \o (IF InteriorLines = <<>> THEN <<"[", "]">> ELSE InteriorLines[1])
              \o (IF Len(InteriorLines) >= 2
                  THEN <<"' data-bounds='">> \o InteriorLines[2] ELSE <<>>)
              \o <<"'></div>">>

\* C22: a figure container gives one figure with an image at the path,
\* with the caption as alt text and as caption element when there is a
\* caption, with the path as alt text and no caption element when there
\* is none; a database container gives one placeholder with the second
\* part as data-src, empty when there is none, and the first part as
\* title.  Both are given for every parameter line, an empty one
\* included, and are the whole output whatever the interior lines are.
C22_FigureAndDatabase ==
    /\ Rendered(<<"f", "i", "g", "u", "r", "e">>) =>
         /\ output =
              << <<"<figure class=\"wiki-figure\">\n  <img src=\"">> \o FirstPart
                   \o <<"\" alt=\"">>
                   \o escapeHtml(IF SecondPart # <<>> THEN SecondPart
                                 ELSE FirstPart)
                   \o <<"\">\n  ">>
                   \o (IF SecondPart # <<>>
                       THEN <<"<figcaption>">> \o parseInline(SecondPart)
                              \o <<"</figcaption>">>
                       ELSE <<>>)
                   \o <<"\n</figure>">> >>
         /\ pc = "returned" => html = output[1]
    /\ Rendered(<<"d", "a", "t", "a", "b", "a", "s", "e">>) =>
         /\ output =
              << <<"<div class=\"wiki-database\" data-src=\"">> \o escapeHtml(SecondPart)
                   \o <<"\">\n  <div class=\"wiki-database-header\">\n    <span class=\"wiki-database-title\">">>
                   \o escapeHtml(FirstPart)
                   \o <<"</span>\n    <input class=\"wiki-database-search\" type=\"search\" placeholder=\"Search...\" aria-label=\"Search ">>
                   \o escapeHtml(FirstPart)
                   \o <<"\">\n    <label class=\"wiki-database-limit-label\">Show <input class=\"wiki-database-limit\" type=\"number\" min=\"1\" value=\"5\" aria-label=\"Maximum results to show\"> results</label>\n  </div>\n  <div class=\"wiki-database-body\">\n    <p class=\"wiki-database-loading\">Loading...</p>\n  </div>\n</div>">> >>
         /\ pc = "returned" => html = output[1]

\* a figure without parameters and with interior lines has been rendered
\* with an empty path and no caption element
C22_Witness ==
    /\ pc = "returned" /\ Rendered(<<"f", "i", "g", "u", "r", "e">>)
    /\ Params = <<>> /\ Len(InteriorLines) >= 1
    /\ html = <<"<figure class=\"wiki-figure\">\n  <img src=\"", "\" alt=\"",
                "\">\n  ", "\n</figure>">>

\* interior line l gives a row: it starts with a pipe, is no separator
\* line and has two cells that are not empty
FactLine(l) ==
    /\ TableLine(Trim(l)) /\ ~SeparatorLine(Trim(l))
    /\ Len(parseCols(l)) >= 2

\* the interior lines that give a row, in source order
FactLines ==
    Sorted({j \in 1..Len(InteriorLines) : FactLine(InteriorLines[j])})

FactRow(l) ==
    <<"<tr><td>">> \o parseInline(parseCols(l)[1]) \o <<"</td><td>">>
      \o parseInline(parseCols(l)[2]) \o <<"</td></tr>">>

\* C23: an infobox container gives one table of two columns under its
\* title, "Quick Facts" when the title is empty, with one row for each
\* interior line that starts with a pipe, is no separator row and has two
\* cells or more, made of the first two of them, in source order, and no
\* row for any other line.
C23_InfoboxRows ==
    Rendered(<<"i", "n", "f", "o", "b", "o", "x">>) =>
        /\ output[1] =
             <<"<div class=\"infobox\" aria-label=\"Quick facts\">\n  <div class=\"infobox-title\">">>
               \o (IF Params = <<>>
                   THEN <<"Q", "u", "i", "c", "k", " ", "F", "a", "c", "t", "s">>
                   ELSE escapeHtml(Params))
               \o <<"</div>\n  <table>">>
               \o Join([k \in 1..Len(FactLines) |->
                          FactRow(InteriorLines[FactLines[k]])], <<NL>>)
               \o <<"</table>\n</div>">>
        /\ Cardinality(PositionsOf(output[1], "<tr><td>")) = Len(FactLines)

\* an untitled infobox with a row, a separator row and a row of one cell
\* has one row
C23_Witness ==
    /\ pc = "returned" /\ Rendered(<<"i", "n", "f", "o", "b", "o", "x">>)
    /\ Params = <<>> /\ Len(InteriorLines) = 3
    /\ SeparatorLine(InteriorLines[2]) /\ Len(parseCols(InteriorLines[3])) = 1
    /\ Occurs(<<"Q", "u", "i", "c", "k", " ", "F", "a", "c", "t", "s">>, html)
    /\ Cardinality(PositionsOf(html, "<tr><td>")) = 1

-----------------------------------------------------------------------------
(* Properties of paragraphs, headings, code, math and quotes, stated on    *)
(* Spec.                                                                   *)

\* the trimmed line t passes none of the thirteen block tests
PlainTextLine(t) == \A k \in 1..(Len(TestOrder) - 1) : ~Passes(TestOrder[k], t)

\* what a flush pushes: one paragraph of the accumulated lines joined by
\* single spaces, nothing when there are none
Flushed ==
    IF paragraphLines = <<>> THEN <<>>
    ELSE << <<"<p>">> \o parseInline(Join(paragraphLines, <<" ">>)) \o <<"</p>">> >>

\* C24: a line that passes no block test is trimmed and appended to the
\* accumulator and nothing is pushed; every other iteration, the one of a
\* blank line included, and the end of the loop flush: they push one
\* paragraph of the accumulated lines joined by single spaces when there
\* are any, none when there are none, before anything else, and leave the
\* accumulator empty; a blank line pushes nothing else.
C24_ParagraphAccumulation ==
    [][pc = "loop" =>
          /\ (pc' = "loop" /\ PlainTextLine(Trim(Line(lines, i)))) =>
               /\ paragraphLines' = Append(paragraphLines, Trim(Line(lines, i)))
               /\ output' = output
          /\ (pc' = "loop" /\ ~PlainTextLine(Trim(Line(lines, i)))) =>
               /\ paragraphLines' = <<>>
               /\ Len(output') >= Len(output) + Len(Flushed)
               /\ SubSeq(output', 1, Len(output) + Len(Flushed)) = output \o Flushed
          /\ (pc' = "loop" /\ Trim(Line(lines, i)) = <<>>) =>
               output' = output \o Flushed
          /\ pc' = "returned" =>
               /\ paragraphLines' = <<>>
               /\ output' = output \o Flushed]_vars

\* two lines of text, one of them with spaces around it, have been joined
\* into one paragraph, flushed by the blank line after them
C24_Witness ==
    /\ pc = "returned" /\ Len(lines) = 3 /\ Line(lines, 2) = <<>>
    /\ Line(lines, 0) = <<" ", "b", " ">> /\ Line(lines, 1) = <<"a">>
    /\ output[1] = <<"<p>", "b", " ", "a", "</p>">>

\* the number of number signs the trimmed line t begins with
Hashes(t) ==
    Least({k \in 0..Len(t) : k = Len(t) \/ t[k + 1] # "#"})

\* t is a heading: two, three or four number signs, a space, and text
HeadingLine(t) ==
    /\ Hashes(t) \in {2, 3, 4}
    /\ Len(t) >= Hashes(t) + 2
    /\ t[Hashes(t) + 1] = " "

HeadingTags ==
    [n \in {2, 3, 4} |->
        IF n = 2 THEN <<"<h2>", "</h2>">>
        ELSE IF n = 3 THEN <<"<h3>", "</h3>">> ELSE <<"<h4>", "</h4>">>]

\* C25: a line of two, three or four number signs, a space and text gives
\* one heading of the level of its number signs, holding the inline
\* transform of the text; an iteration on any other line, one with a single
\* number sign, with five or more, or with nothing after the number signs
\* included, pushes no heading, and such a line is paragraph text.
C25_HeadingLevels ==
    [][(pc = "loop" /\ pc' = "loop") =>
          LET t == Trim(Line(lines, i))
              n == Hashes(t)
          IN  /\ HeadingLine(t) =>
                   /\ i' = i + 1
                   /\ output' = (output \o Flushed)
                        \o << <<HeadingTags[n][1]>>
                                \o parseInline(SubSeq(t, n + 2, Len(t)))
                                \o <<HeadingTags[n][2]>> >>
              /\ ~HeadingLine(t) =>
                   \A k \in (Len(output) + 1)..Len(output') :
                       output'[k] = <<>>
                         \/ output'[k][1] \notin {"<h2>", "<h3>", "<h4>"}
              /\ (n >= 1 /\ ~HeadingLine(t)) => branch' = "paragraph"]_vars

\* five number signs are text, four with two spaces a heading whose text
\* begins with a space, one number sign is text
C25_Witness ==
    /\ pc = "returned" /\ Len(lines) = 3
    /\ Hashes(Line(lines, 0)) = 5 /\ Hashes(Line(lines, 2)) = 1
    /\ Len(output) = 3
    /\ output[1][1] = "<p>"
    /\ output[2] = <<"<h4>", " ", "y", "</h4>">>
    /\ output[3][1] = "<p>"

\* t begins with three backticks
BacktickLine(t) == Len(t) >= 3 /\ t[1] = BT /\ t[2] = BT /\ t[3] = BT

\* the index of the first line after line n that begins, once trimmed, with
\* three backticks; the number of lines when there is none
CodeCloser(n) ==
    Least({k \in (n + 1)..Len(lines) :
              k = Len(lines) \/ BacktickLine(Trim(Line(lines, k)))})

\* the source text of lines a+1 .. b-1, line breaks included
InteriorText(a, b) ==
    Join([k \in 1..(b - a - 1) |-> Line(lines, a + k)], <<NL>>)

\* C26: an iteration on a line that begins with three backticks flushes the
\* paragraph and pushes exactly one code block: its language is the rest of
\* that line, its text is every line up to the next line beginning with
\* three backticks (or the end of input) as written, HTML-escaped and nothing
\* else, whatever those lines look like, and the loop resumes after the
\* closing line.
C26_CodeBlockVerbatim ==
    [][(pc = "loop" /\ pc' = "loop" /\ BacktickLine(Trim(Line(lines, i)))) =>
          LET t == Trim(Line(lines, i))
              lang == Trim(SubSeq(t, 4, Len(t)))
              close == CodeCloser(i)
              tag == IF lang = <<>> THEN <<"<pre><code>">>
                     ELSE <<"<pre><code class=\"language-">>
                            \o escapeHtml(lang) \o <<"\">">>
          IN  /\ i' = close + 1
              /\ paragraphLines' = <<>>
              /\ output' = (output \o Flushed)
                    \o << tag \o escapeHtml(InteriorText(i, close))
                              \o <<"</code></pre>">> >>]_vars

\* a block with a language whose text holds a heading line, a blank line
\* and a container opening line, closed by the end of input
C26_Witness ==
    /\ pc = "returned" /\ Len(lines) = 3
    /\ Line(lines, 0) = <<BT, BT, BT, "j", "s">>
    /\ Line(lines, 1) = <<"#", "#", " ", "h", "<">>
    /\ Line(lines, 2) = <<":", ":", ":", "n">>
    /\ output = << <<"<pre><code class=\"language-", "j", "s", "\">",
                     "#", "#", " ", "h", "&", "l", "t", ";", NL,
                     ":", ":", ":", "n", "</code></pre>">> >>

\* t is two dollar signs and nothing else
ExactMath(t) == t = <<"$", "$">>

\* t begins and ends with two dollar signs and has more than 4 characters
OneLineMath(t) ==
    /\ Len(t) > 4
    /\ t[1] = "$" /\ t[2] = "$"
    /\ t[Len(t) - 1] = "$" /\ t[Len(t)] = "$"

\* the index of the first line after line n that is two dollar signs once
\* trimmed; the number of lines when there is none
MathCloser(n) ==
    Least({k \in (n + 1)..Len(lines) :
              k = Len(lines) \/ ExactMath(Trim(Line(lines, k)))})

\* C27: an iteration on a line that is two dollar signs flushes the
\* paragraph and pushes one math block holding, between two pairs of dollar
\* signs, the lines up to the next such line as written, joined by line
\* breaks; an iteration on a line longer than 4 characters that begins and
\* ends with two dollar signs flushes the paragraph and pushes the line as
\* one math block; nothing in either is escaped or rewritten, and an
\* iteration on any other line pushes no math block.
C27_DisplayMath ==
    [][(pc = "loop" /\ pc' = "loop") =>
          LET t == Trim(Line(lines, i))
              close == MathCloser(i)
          IN  /\ ExactMath(t) =>
                   /\ i' = close + 1
                   /\ paragraphLines' = <<>>
                   /\ output' = (output \o Flushed)
                        \o << <<"<div class=\"math-block\">", "$", "$">>
                                \o InteriorText(i, close)
                                \o <<"$", "$", "</div>">> >>
              /\ OneLineMath(t) =>
                   /\ i' = i + 1
                   /\ paragraphLines' = <<>>
                   /\ output' = (output \o Flushed)
                        \o << <<"<div class=\"math-block\">">> \o t
                                \o <<"</div>">> >>
              /\ (~ExactMath(t) /\ ~OneLineMath(t)) =>
                   \A k \in (Len(output) + 1)..Len(output') :
                       output'[k] = <<>>
                         \/ output'[k][1] # "<div class=\"math-block\">"]_vars

\* a one-line block with a less-than sign, then a block closed by the end
\* of input whose line keeps its spaces and its asterisks
C27_Witness ==
    /\ pc = "returned" /\ Len(lines) = 3
    /\ output = << <<"<div class=\"math-block\">", "$", "$", "a", "<", "b",
                     "$", "$", "</div>">>,
                   <<"<div class=\"math-block\">", "$", "$",
                     " ", "x", " ", "*", "y", "*", " ",
                     "$", "$", "</div>">> >>

\* t is a quoted line: a greater-than sign alone or followed by a space
QuoteLine(t) == t = <<">">> \/ (Len(t) >= 2 /\ t[1] = ">" /\ t[2] = " ")

\* the index of the first line from line n on that is not a quoted line;
\* the number of lines when there is none
QuoteEnd(n) ==
    Least({k \in n..Len(lines) :
              k = Len(lines) \/ ~QuoteLine(Trim(Line(lines, k)))})

\* the quoted line t without its marker and the space after it
Unquoted(t) == IF Len(t) <= 2 THEN <<>> ELSE SubSeq(t, 3, Len(t))

\* C28: an iteration on a quoted line flushes the paragraph, takes every
\* line up to the first one that is not a quoted line, and pushes one
\* blockquote holding parseBlocks of those lines without their markers; an
\* iteration on any other line pushes no blockquote, and a line whose
\* greater-than sign is followed by another character is paragraph text.
C28_BlockquoteRun ==
    [][(pc = "loop" /\ pc' = "loop") =>
          LET t == Trim(Line(lines, i))
              stop == QuoteEnd(i)
              dequoted == [k \in 1..(stop - i) |->
                              Unquoted(Trim(Line(lines, i + k - 1)))]
          IN  /\ QuoteLine(t) =>
                   /\ i' = stop
                   /\ paragraphLines' = <<>>
                   /\ output' = (output \o Flushed)
                        \o << <<"<blockquote>">>
                                \o parseBlocks(Join(dequoted, <<NL>>))
                                \o <<"</blockquote>">> >>
              /\ ~QuoteLine(t) =>
                   \A k \in (Len(output) + 1)..Len(output') :
                       output'[k] = <<>> \/ output'[k][1] # "<blockquote>"
              /\ (t # <<>> /\ t[1] = ">" /\ ~QuoteLine(t)) =>
                   branch' = "paragraph"]_vars

\* a run of two quoted lines, the second quoted twice, gives one blockquote
\* with a nested one; the line >x after it is a paragraph
C28_Witness ==
    /\ pc = "returned" /\ Len(lines) = 3
    /\ Line(lines, 2) = <<">", "x">>
    /\ output = << <<"<blockquote>", "<p>", "q", "</p>", NL,
                     "<blockquote>", "<p>", "r", "</p>", "</blockquote>",
                     "</blockquote>">>,
                   <<"<p>", ">", "x", "</p>">> >>

\* the segments of line l between its pipes, each trimmed
Segments(l) ==
    LET cuts == <<0>> \o Sorted(PositionsOf(l, "|")) \o <<Len(l) + 1>>
    IN  [k \in 1..(Len(cuts) - 1) |->
            Trim(SubSeq(l, cuts[k] + 1, cuts[k + 1] - 1))]

\* the segments of line l without the empty ones before the first and after
\* the last segment that is not empty
KeptSegments(l) ==
    LET segs == Segments(l)
        full == {k \in 1..Len(segs) : segs[k] # <<>>}
    IN  IF full = {} THEN <<>> ELSE SubSeq(segs, Least(full), Most(full))

\* the kept segments of line j as cells, each between open and close
CellsInPlace(j, open, close) ==
    LET segs == KeptSegments(Line(lines, j))
    IN  Concat([k \in 1..Len(segs) |->
                  <<open>> \o parseInline(segs[k]) \o <<close>>])

\* C29: the table pushed for a run of table lines has, for each row, one
\* cell for every segment between the pipes of the line, empty leading and
\* trailing segments left out, in source order and each in its own column:
\* the k-th cell is the inline transform of the k-th such segment, trimmed.
C29_CellsKeepColumns ==
    [][(pc = "loop" /\ pc' = "loop" /\ i < Len(lines)
          /\ TableLine(Trim(Line(lines, i))) /\ Remaining # <<>>) =>
          output'[Len(output')] =
              <<"<table>\n  <thead><tr>">>
                \o CellsInPlace(Remaining[1], "<th>", "</th>")
                \o <<"</tr></thead>\n  <tbody>">>
                \o Join([k \in 1..(Len(Remaining) - 1) |->
                           <<"<tr>">>
                             \o CellsInPlace(Remaining[k + 1], "<td>", "</td>")
                             \o <<"</tr>">>], <<NL>>)
                \o <<"</tbody>\n</table>">>]_vars

-----------------------------------------------------------------------------
(* Properties of the placeholders, stated on SpecInline.                   *)

\* the pairs <<p, q>> such that s holds a placeholder from p to q: a NUL,
\* one or more digits, a NUL
TokensOf(s) ==
    {pq \in (1..Len(s)) \X (1..Len(s)) :
        /\ pq[2] > pq[1] + 1
        /\ s[pq[1]] = NUL /\ s[pq[2]] = NUL
        /\ \A k \in (pq[1] + 1)..(pq[2] - 1) : s[k] \in Numerals}

\* the slot index that the placeholder pq of s names
SlotNamed(s, pq) == StrToNat(SubSeq(s, pq[1] + 1, pq[2] - 1))

\* C30: once the spans are protected, every placeholder in the text is one
\* that parseInline put there: it names a slot that exists, and no two
\* placeholders name the same slot, so that the restore step touches
\* nothing that was in the input.
C30_PlaceholderNeverCollides ==
    pc \in {"math", "boldItalic", "bold", "italic", "strike", "links", "restore"} =>
        /\ \A pq \in TokensOf(text) : SlotNamed(text, pq) < Len(slots)
        /\ \A pq \in TokensOf(text) : \A rs \in TokensOf(text) :
               SlotNamed(text, pq) = SlotNamed(text, rs) => pq = rs

\* C31: for an input without a NUL character, the text that parseInline
\* returns holds no NUL character, hence no placeholder: every protected
\* span is back in the text after the one restore pass.
C31_NoPlaceholderLeft ==
    (pc = "returned" /\ \A k \in 1..Len(source) : source[k] # NUL) =>
        \A k \in 1..Len(html) : html[k] # NUL

\* the index of the first line after line n whose trimmed text is :::; the
\* number of lines when there is none
FirstCloser(n) ==
    Least({k \in (n + 1)..Len(lines) :
              k = Len(lines) \/ Trim(Line(lines, k)) = <<":", ":", ":">>})

\* C32: the iteration that opens a container takes as interior the lines
\* between the opening line and the first later line that is only :::,
\* whatever they are, renders them and no other line, and leaves the cursor
\* on the line after that first :::; opening lines inside the interior are
\* not counted.
C32_FirstCloserEndsContainer ==
    [][(pc = "loop" /\ pc' = "loop" /\ OpensContainer(Trim(Line(lines, i)))) =>
          LET t == Trim(Line(lines, i))
              close == FirstCloser(i)
              inner == InteriorText(i, close)
          IN  /\ i' = close + 1
              /\ paragraphLines' = <<>>
              /\ output' = (output \o Flushed)
                    \o <<RenderFenced(KindOf(t), ParamsOf(t), inner,
                                      parseBlocks(inner))>>]_vars

\* a summary that holds the opening line of a notice and is closed by the
\* first :::; the text and the second ::: after it are one paragraph of the
\* enclosing document
C32_Witness ==
    /\ pc = "returned" /\ Len(lines) = 5
    /\ Line(lines, 1) = <<":", ":", ":", "n", "o", "t", "i", "c", "e">>
    /\ Line(lines, 3) = <<"q">>
    /\ Line(lines, 4) = <<" ", ":", ":", ":">>
    /\ Len(output) = 2
    /\ output[1] = renderSummaryBlock(renderNoticeBlock(<<>>))
    /\ output[2] = <<"<p>", "q", " ", ":", ":", ":", "</p>">>

-----------------------------------------------------------------------------
(* Properties of the recursion of parseBlocks, stated on SpecLive.         *)

\* the kinds whose renderer is given the raw interior or nothing, not
\* parseBlocks of the interior
UnparsedKinds ==
    { <<"i", "n", "f", "o", "b", "o", "x">>, <<"d", "e", "s", "m", "o", "s">>,
      <<"f", "i", "g", "u", "r", "e">>,
      <<"c", "i", "t", "a", "t", "i", "o", "n", "s">>,
      <<"d", "a", "t", "a", "b", "a", "s", "e">> }

\* the iteration on the line under the cursor of st calls parseBlocks
Recurses(st) ==
    \/ BranchOf(Line(st.lines, st.i)) = "quote"
    \/ /\ BranchOf(Line(st.lines, st.i)) = "fenced"
       /\ KindOf(Trim(Line(st.lines, st.i))) \notin UnparsedKinds

RECURSIVE CallsFrom(_)
\* every recursive call made from state st on, directly or inside another
\* call, as the pair of the caller's text and the text it hands over
CallsFrom(st) ==
    IF st.i >= Len(st.lines) THEN {}
    ELSE (IF Recurses(st)
          THEN {<<Join(st.lines, <<NL>>), NestedSource(st)>>}
                 \cup CallsFrom(StartBlocks(NestedSource(st)))
          ELSE {})
           \cup CallsFrom(Branch(BranchOf(Line(st.lines, st.i)), st, <<>>))

RECURSIVE DepthFrom(_)
\* the number of parseBlocks calls on the stack at the deepest point of the
\* run from state st on, the running call not counted
DepthFrom(st) ==
    IF st.i >= Len(st.lines) THEN 0
    ELSE LET rest == DepthFrom(Branch(BranchOf(Line(st.lines, st.i)), st, <<>>))
             here == IF Recurses(st)
                     THEN 1 + DepthFrom(StartBlocks(NestedSource(st)))
                     ELSE 0
         IN  IF here > rest THEN here ELSE rest

\* C33: every recursive call of parseBlocks is given a text strictly
\* shorter than the text of the call that makes it, the depth of the
\* recursion is at most the length of the body, and parse returns.
C33_RecursionBounded ==
    /\ [](pc \in {"loop", "returned"} =>
            /\ \A c \in CallsFrom(StartBlocks(body)) : Len(c[2]) < Len(c[1])
            /\ DepthFrom(StartBlocks(body)) <= Len(body))
    /\ <>(pc = "returned")

\* parse has returned from a document with a call inside a call
C33_Witness ==
    /\ pc = "returned"
    /\ DepthFrom(StartBlocks(body)) = 2
    /\ \E c \in CallsFrom(StartBlocks(body)) : c[1] # body /\ Len(c[2]) < Len(c[1])

-----------------------------------------------------------------------------
(* A frontmatter block that is never closed, stated on SpecFrontmatter.    *)

\* the lines after the opening line that are `identifier: value`
WellFormedLines ==
    {j \in 1..(Len(lines) - 1) : WellFormed(Line(lines, j))}

\* C34: parseFrontmatter never starts the body before the line after the
\* closing delimiter; when the first line is --- and no later line is, it
\* scans every line to the end, returns the metadata of all the well-formed
\* lines, each key with the coerced value of its last line, and an empty
\* body, of which parseBlocks gives empty html.
C34_UnterminatedFrontmatter ==
    (pc = "fm_returned" /\ Opens) =>
        /\ i = Closing + 1
        /\ Closing = Len(lines) =>
             /\ DOMAIN meta = {KeyOf(Line(lines, j)) : j \in WellFormedLines}
             /\ \A key \in DOMAIN meta :
                    meta[key] = Coerced(key, ValueOf(Line(lines, Most(LinesOf(key)))))
             /\ body = <<>>
             /\ parseBlocks(body) = <<>>

-----------------------------------------------------------------------------
(* The page scripts.  A fetch in flight is "pending" until the network     *)
(* answers it, with "ok" or with "failed" (a rejected fetch, a status that *)
(* is not ok, a body that is no JSON); the answers come in any order.      *)

\* no parser call is running
ParserIdle ==
    /\ source = <<>> /\ text = <<>> /\ slots = <<>>
    /\ lines = <<>> /\ i = 0 /\ meta = EmptyMeta /\ body = <<>>
    /\ paragraphLines = <<>> /\ output = <<>> /\ html = <<>>
    /\ branch = "none" /\ starts = <<>> /\ paraStart = -1

-----------------------------------------------------------------------------
(* loadArticleRegistry (article-registry.js).                              *)

\* the most files a registry names
MaxFiles == 3

\* the split files the server holds and the array of articles in each
FileNames == {"a.json", "b.json", "c.json"}

FileContent(f) ==
    CASE f = "a.json" -> <<"a1", "a2">>
      [] f = "b.json" -> <<"b1">>
      [] OTHER -> <<>>

\* a property of articles.json that is not there
Missing == [given |-> FALSE, list |-> <<>>]

\* the `files` lists of articles.json: none, or files in any order
FileLists ==
    {Missing} \cup
    {[given |-> TRUE, list |-> fs] : fs \in
        {fs \in SeqsUpTo(FileNames, MaxFiles) :
            \A j \in 1..Len(fs) : \A k \in 1..Len(fs) : fs[j] = fs[k] => j = k}}

\* the `categories` of articles.json
CategoryLists == {Missing, [given |-> TRUE, list |-> <<"math">>]}

\* meta.files || []
FilesOf(m) == IF m.files.given THEN m.files.list ELSE <<>>

\* meta.categories || []
CategoriesOf(m) == IF m.categories.given THEN m.categories.list ELSE <<>>

\* the arrays by order of arrival instead of by place in the list
ArticleArraysByArrival ==
    [n \in 1..Len(trace) |-> locals.arrays[trace[n]]]

\* the value of Promise.all: the array of each file, at the place of the
\* file in the list
ArticleArrays ==
    [k \in 1..Len(FilesOf(locals.meta)) |-> locals.arrays[k]]

\* Array.prototype.flat on an array of arrays
Flat(arrays) == Concat(arrays)

InitRegistry ==
    /\ pc = "registry_meta"
    /\ net = (0 :> "pending")
    /\ timers = <<>> /\ dom = <<>> /\ locals = <<>>
    /\ settled = [state |-> "pending"] /\ trace = <<>>
    /\ ParserIdle

\* await fetchJSON('article-data/articles.json') succeeds: one fetch per
\* file of the list is started, all before any is awaited
MetaArrives ==
    /\ pc = "registry_meta" /\ net[0] = "pending"
    /\ \E fs \in FileLists, cs \in CategoryLists :
         LET m == [files |-> fs, categories |-> cs]
         IN  /\ locals' = [meta |-> m,
                           arrays |-> [k \in 1..Len(FilesOf(m)) |-> "none"]]
             /\ net' = [k \in 0..Len(FilesOf(m)) |->
                           IF k = 0 THEN "ok" ELSE "pending"]
    /\ pc' = "registry_files"
    /\ UNCHANGED <<timers, dom, settled, trace, parserVars>>

\* the fetch of articles.json fails: the await throws, the call rejects
MetaFails ==
    /\ pc = "registry_meta" /\ net[0] = "pending"
    /\ net' = [net EXCEPT ![0] = "failed"]
    /\ settled' = [state |-> "rejected"]
    /\ pc' = "registry_done"
    /\ UNCHANGED <<timers, dom, locals, trace, parserVars>>

\* the fetch of the k-th file succeeds
FileArrives ==
    /\ pc \in {"registry_files", "registry_done"}
    /\ \E k \in (DOMAIN net) \ {0} :
         /\ net[k] = "pending"
         /\ net' = [net EXCEPT ![k] = "ok"]
         /\ locals' = [locals EXCEPT
                          !.arrays[k] = FileContent(FilesOf(locals.meta)[k])]
         /\ trace' = Append(trace, k)
    /\ UNCHANGED <<pc, timers, dom, settled, parserVars>>

\* the fetch of the k-th file fails
FileFails ==
    /\ pc \in {"registry_files", "registry_done"}
    /\ \E k \in (DOMAIN net) \ {0} :
         /\ net[k] = "pending"
         /\ net' = [net EXCEPT ![k] = "failed"]
    /\ UNCHANGED <<pc, timers, dom, locals, settled, trace, parserVars>>

\* every promise given to Promise.all is fulfilled: the await returns and
\* the call fulfils with the registry
RegistryResolves ==
    /\ pc = "registry_files"
    /\ \A k \in (DOMAIN net) \ {0} : net[k] = "ok"
    /\ settled' = [state |-> "fulfilled",
                   categories |-> CategoriesOf(locals.meta),
                   articles |-> Flat(ArticleArrays)]
    /\ pc' = "registry_done"
    /\ UNCHANGED <<net, timers, dom, locals, trace, parserVars>>

\* a promise given to Promise.all is rejected: the await throws at once,
\* the call rejects
RegistryRejects ==
    /\ pc = "registry_files"
    /\ \E k \in (DOMAIN net) \ {0} : net[k] = "failed"
    /\ settled' = [state |-> "rejected"]
    /\ pc' = "registry_done"
    /\ UNCHANGED <<net, timers, dom, locals, trace, parserVars>>

NextRegistry ==
    \/ MetaArrives
    \/ MetaFails
    \/ FileArrives
    \/ FileFails
    \/ RegistryResolves
    \/ RegistryRejects

SpecRegistry == InitRegistry /\ [][NextRegistry]_vars

-----------------------------------------------------------------------------
(* init and loadWMDArticle (scripts.js).                                   *)

\* the three files of Promise.all in init
ConfigFiles == {"config/site.json", "config/articles.json", "config/featured.json"}

\* the calls of init between the first await and loadWMDArticle
BuildSteps ==
    <<"applySiteConfig", "buildHeader", "buildFooter", "buildSidebarNav">>

\* the calls of init after loadWMDArticle
FinalSteps ==
    <<"generateTOC", "initScrollSpy", "initDropdowns", "initSearch",
      "initHeroSearch", "buildIndexPage", "buildSearchPage",
      "initDesmosGraphs", "initDatabases", "initCitationLinks">>

\* the pages init runs on: with or without the article root, the parser
\* script, the id parameter, and the categories of articles.json
Pages ==
    [root : BOOLEAN, parser : BOOLEAN, id : BOOLEAN, categories : BOOLEAN,
     rootHtml : {"empty"}]

InitPage ==
    /\ pc = "init_fetch"
    /\ net = [r \in ConfigFiles |-> "pending"]
    /\ dom \in Pages
    /\ timers = <<>>
    /\ locals = [load |-> "not called"]
    /\ settled = [state |-> "pending"]
    /\ trace = <<>>
    /\ ParserIdle

\* a fetch of init or of loadWMDArticle is answered
ConfigArrives ==
    /\ \E r \in ConfigFiles :
         /\ net[r] = "pending"
         /\ net' = [net EXCEPT ![r] = "ok"]
    /\ UNCHANGED <<pc, timers, dom, locals, settled, trace, parserVars>>

ConfigFails ==
    /\ \E r \in ConfigFiles :
         /\ net[r] = "pending"
         /\ net' = [net EXCEPT ![r] = "failed"]
    /\ UNCHANGED <<pc, timers, dom, locals, settled, trace, parserVars>>

\* Promise.all rejects on the first failure: the await throws into the
\* catch block, which logs; init returns normally
ConfigCaught ==
    /\ pc = "init_fetch"
    /\ \E r \in ConfigFiles : net[r] = "failed"
    /\ trace' = Append(trace, "console.error")
    /\ settled' = [state |-> "fulfilled"]
    /\ pc' = "init_done"
    /\ UNCHANGED <<net, timers, dom, locals, parserVars>>

\* the part of loadWMDArticle before its first await, as the new values of
\* net, dom.rootHtml and locals.load
LoadStart ==
    IF ~dom.root \/ ~dom.parser
    THEN [net |-> net, rootHtml |-> dom.rootHtml, load |-> "returned",
          steps |-> <<"loadWMDArticle returns">>]
    ELSE IF ~dom.id
    THEN [net |-> net, rootHtml |-> "no article specified", load |-> "returned",
          steps |-> <<"root.innerHTML", "loadWMDArticle returns">>]
    ELSE [net |-> ("wmd" :> "pending") @@ net, rootHtml |-> dom.rootHtml,
          load |-> "awaiting", steps |-> <<>>]

\* Promise.all fulfils: the calls up to loadWMDArticle run, and
\* loadWMDArticle runs to its first await or to its return
ConfigReady ==
    /\ pc = "init_fetch"
    /\ \A r \in ConfigFiles : net[r] = "ok"
    /\ net' = LoadStart.net
    /\ dom' = [dom EXCEPT !.rootHtml = LoadStart.rootHtml]
    /\ locals' = [locals EXCEPT !.load = LoadStart.load]
    /\ trace' = trace \o BuildSteps \o <<"loadWMDArticle called">>
                  \o LoadStart.steps
    /\ pc' = "init_article"
    /\ UNCHANGED <<timers, settled, parserVars>>

\* fetch(id + '.wmd') succeeds: loadWMDArticle parses and injects the
\* article, or throws on data.categories.forEach when articles.json has no
\* categories
ArticleArrives ==
    /\ locals.load = "awaiting" /\ net["wmd"] = "pending"
    /\ net' = [net EXCEPT !["wmd"] = "ok"]
    /\ IF dom.categories
       THEN /\ dom' = [dom EXCEPT !.rootHtml = "article"]
            /\ locals' = [locals EXCEPT !.load = "returned"]
            /\ trace' = trace \o <<"root.innerHTML", "loadWMDArticle returns">>
       ELSE /\ dom' = dom
            /\ locals' = [locals EXCEPT !.load = "threw"]
            /\ trace' = Append(trace, "loadWMDArticle throws")
    /\ UNCHANGED <<pc, timers, settled, parserVars>>

\* fetch(id + '.wmd') fails: loadWMDArticle shows its message and returns
ArticleFails ==
    /\ locals.load = "awaiting" /\ net["wmd"] = "pending"
    /\ net' = [net EXCEPT !["wmd"] = "failed"]
    /\ dom' = [dom EXCEPT !.rootHtml = "could not load article"]
    /\ locals' = [locals EXCEPT !.load = "returned"]
    /\ trace' = trace \o <<"root.innerHTML", "console.error",
                           "loadWMDArticle returns">>
    /\ UNCHANGED <<pc, timers, settled, parserVars>>

\* init goes on after a call it does not wait for
LoadNotAwaited == locals.load \in {"returned", "awaiting"}

\* await loadWMDArticle(config, data) returns
LoadFinished == locals.load = "returned"

\* the calls of init after the await, to its end
InitContinues ==
    /\ pc = "init_article"
    /\ LoadFinished
    /\ trace' = trace \o FinalSteps
    /\ settled' = [state |-> "fulfilled"]
    /\ pc' = "init_done"
    /\ UNCHANGED <<net, timers, dom, locals, parserVars>>

\* await loadWMDArticle(config, data) throws into the catch block
InitCatches ==
    /\ pc = "init_article"
    /\ locals.load = "threw"
    /\ trace' = Append(trace, "console.error")
    /\ settled' = [state |-> "fulfilled"]
    /\ pc' = "init_done"
    /\ UNCHANGED <<net, timers, dom, locals, parserVars>>

NextPage ==
    \/ ConfigArrives
    \/ ConfigFails
    \/ ConfigCaught
    \/ ConfigReady
    \/ ArticleArrives
    \/ ArticleFails
    \/ InitContinues
    \/ InitCatches

SpecPage == InitPage /\ [][NextPage]_vars

-----------------------------------------------------------------------------
(* buildSearchPage (scripts.js): the input, the debounced update and the   *)
(* submit handler.  Time is counted in tenths of a second; a timer fires   *)
(* when its delay has passed, after the events of the same instant.        *)

\* 300 ms, in tenths of a second
DebounceDelay == 3

\* the instant at which the clock stops
MaxTime == 6

\* the most input and submit events of a run
MaxEvents == 4

\* what the reader types
Values == {"", "a", "B "}

\* query.trim()
TrimQuery(v) == IF v = "B " THEN "B" ELSE v

\* query.trim().toLowerCase()
NormalQuery(v) == IF v = "B " THEN "b" ELSE v

\* the normalised queries that some article matches
Matching == {"a"}

\* renderResults(query): what the results element then holds
renderResults(v) ==
    IF NormalQuery(v) = "" THEN [kind |-> "empty", query |-> ""]
    ELSE IF NormalQuery(v) \in Matching
    THEN [kind |-> "results", query |-> NormalQuery(v)]
    ELSE [kind |-> "no results", query |-> NormalQuery(v)]

\* showSuggestions(query): whether the suggestion list is then open
showSuggestions(v) == NormalQuery(v) \in Matching

\* the pending timers after a debounced call that leaves the earlier timer
DebouncedKeepingTimer(v) ==
    timers.pending \cup {[val |-> v, due |-> timers.now + DebounceDelay]}

\* the pending timers after debouncedUpdate(v): clearTimeout(debounceTimer),
\* then debounceTimer = setTimeout(() => fn(v), 300)
Debounced(v) == {[val |-> v, due |-> timers.now + DebounceDelay]}

\* the page opens with or without a q parameter, which fills the input and
\* is rendered at once
InitSearch ==
    /\ pc = "search"
    /\ \E q \in {"", "a"} :
         dom = [value |-> q, results |-> renderResults(q), q |-> q,
                suggestions |-> FALSE]
    /\ timers = [now |-> 0, pending |-> {}]
    /\ net = <<>> /\ locals = <<>> /\ settled = "none" /\ trace = <<>>
    /\ ParserIdle

\* the events of the trace that the reader made
UserEvents == {n \in 1..Len(trace) : trace[n].ev \in {"input", "submit"}}

\* an input event with the new value v of the field
Input ==
    /\ pc = "search"
    /\ Cardinality(UserEvents) < MaxEvents
    /\ \E v \in Values :
         /\ dom' = [dom EXCEPT !.value = v, !.suggestions = showSuggestions(v)]
         /\ timers' = [timers EXCEPT !.pending = Debounced(v)]
         /\ trace' = Append(trace, [ev |-> "input", val |-> v, at |-> timers.now])
    /\ UNCHANGED <<pc, net, locals, settled, parserVars>>

\* the callback of the timer: renderResults(val) and history.replaceState
DebouncedUpdate ==
    /\ pc = "search"
    /\ \E t \in timers.pending :
         /\ t.due <= timers.now
         /\ dom' = [dom EXCEPT !.results = renderResults(t.val),
                               !.q = TrimQuery(t.val)]
         /\ timers' = [timers EXCEPT !.pending = @ \ {t}]
         /\ trace' = Append(trace, [ev |-> "debounced", val |-> t.val,
                                    at |-> timers.now])
    /\ UNCHANGED <<pc, net, locals, settled, parserVars>>

\* the submit handler
Submit ==
    /\ pc = "search"
    /\ Cardinality(UserEvents) < MaxEvents
    /\ timers' = [timers EXCEPT !.pending = {}]
    /\ dom' = [dom EXCEPT !.suggestions = FALSE,
                          !.q = TrimQuery(dom.value),
                          !.results = renderResults(dom.value)]
    /\ trace' = Append(trace, [ev |-> "submit", val |-> dom.value,
                               at |-> timers.now])
    /\ UNCHANGED <<pc, net, locals, settled, parserVars>>

\* a tenth of a second passes; a timer that is due fires first
Tick ==
    /\ pc = "search"
    /\ timers.now < MaxTime
    /\ \A t \in timers.pending : t.due > timers.now
    /\ timers' = [timers EXCEPT !.now = @ + 1]
    /\ UNCHANGED <<pc, net, dom, locals, settled, trace, parserVars>>

NextSearch ==
    \/ Input
    \/ DebouncedUpdate
    \/ Submit
    \/ Tick

SpecSearch == InitSearch /\ [][NextSearch]_vars

-----------------------------------------------------------------------------
(* initDropdowns (scripts.js) on the dropdowns of a page: those the parser *)
(* emitted and those written by hand in the page's HTML.                   *)

\* the dropdowns of a page
MaxDropdowns == 2

\* the most clicks on one trigger
MaxClicks == 3

\* the element renderDropdownBlock emits: class wiki-dropdown alone, a
\* trigger button without attributes or arrow, and a body
ParserDropdown ==
    [origin |-> "parser", open |-> FALSE, trigger |-> TRUE, body |-> TRUE,
     arrow |-> FALSE, expanded |-> "unset", controls |-> FALSE,
     listeners |-> 0, initially |-> FALSE, clicks |-> 0]

\* the dropdowns a page's own HTML may hold
StaticDropdowns ==
    {[origin |-> "static", open |-> o, trigger |-> t, body |-> b,
      arrow |-> FALSE, expanded |-> "unset", controls |-> FALSE,
      listeners |-> 0, initially |-> o, clicks |-> 0] :
        o \in BOOLEAN, t \in BOOLEAN, b \in BOOLEAN}

\* isOpen ? 'true' : 'false'
Expanded(isOpen) == IF isOpen THEN "true" ELSE "false"

\* a click handler that toggles the class and leaves the attribute
ToggledClassOnly(el) == [el EXCEPT !.open = ~@, !.clicks = @ + 1]

\* one run of the click listener on the dropdown el
Toggled(el) ==
    [el EXCEPT !.open = ~@, !.expanded = Expanded(~el.open), !.clicks = @ + 1]

\* the body of initDropdowns' forEach for the dropdown el
Prepared(el) ==
    IF ~el.trigger THEN el
    ELSE [el EXCEPT !.arrow = TRUE,
                    !.expanded = IF el.body THEN Expanded(el.open) ELSE @,
                    !.controls = IF el.body THEN TRUE ELSE @,
                    !.listeners = @ + 1]

InitDropdownPage ==
    /\ pc = "dropdowns"
    /\ dom \in [1..MaxDropdowns -> {ParserDropdown} \cup StaticDropdowns]
    /\ net = <<>> /\ timers = <<>> /\ locals = <<>>
    /\ settled = "none" /\ trace = <<>>
    /\ ParserIdle

\* init() reaches initDropdowns, which visits every dropdown
initDropdowns ==
    /\ pc = "dropdowns"
    /\ pc' = "dropdowns_ready"
    /\ dom' = [d \in DOMAIN dom |-> Prepared(dom[d])]
    /\ UNCHANGED <<net, timers, locals, settled, trace, parserVars>>

\* the reader clicks the trigger of dropdown d; every listener on it runs
ClickTrigger ==
    /\ pc = "dropdowns_ready"
    /\ \E d \in DOMAIN dom :
         /\ dom[d].trigger
         /\ dom[d].listeners = 1
         /\ dom[d].clicks < MaxClicks
         /\ dom' = [dom EXCEPT ![d] = Toggled(@)]
    /\ UNCHANGED <<pc, net, timers, locals, settled, trace, parserVars>>

NextDropdowns ==
    \/ initDropdowns
    \/ ClickTrigger

SpecDropdowns == InitDropdownPage /\ [][NextDropdowns]_vars

-----------------------------------------------------------------------------
(* initDesmosGraphs (scripts.js): every container waits for the Desmos     *)
(* script with a timer of its own.  A timer holds the tenths of a second   *)
(* left before it fires.                                                   *)

\* 200 ms, in tenths of a second
PollDelay == 2

\* the containers of a page
MaxContainers == 2

\* the polls counted for one container; later ones leave the count alone
MaxPolls == 3

\* the calculators counted for one container
MaxCalcs == 2

\* what a data-expressions attribute may hold: a list of expressions, text
\* that is no JSON, JSON that is no list
ExpressionTexts == {"list", "no json", "no list"}

\* what a data-bounds attribute may hold; an absent and an empty one alike
BoundsTexts == {"none", "object", "no json"}

Containers ==
    {[expressions |-> e, bounds |-> b, built |-> FALSE, calcs |-> 0,
      shown |-> FALSE, bounded |-> FALSE, warned |-> FALSE, polls |-> 0] :
        e \in ExpressionTexts, b \in BoundsTexts}

\* typeof Desmos !== 'undefined'
DesmosDefined == net.desmos = "ok"

\* the timers container c has after a tryInit that always polls again
RetryAlways(c) == {[c |-> c, left |-> PollDelay]}

\* the timers container c has after tryInit: none once Desmos is defined,
\* else setTimeout(tryInit, 200)
Retry(c) == IF DesmosDefined THEN {} ELSE {[c |-> c, left |-> PollDelay]}

\* the container after tryInit: with Desmos defined a calculator, the
\* expressions when they parse to a list (a warning when they do not), the
\* bounds when there are some and they parse
tryInit(el) ==
    IF DesmosDefined
    THEN [el EXCEPT !.calcs = IF @ < MaxCalcs THEN @ + 1 ELSE @,
                    !.shown = el.expressions = "list",
                    !.warned = el.expressions # "list",
                    !.bounded = el.bounds = "object"]
    ELSE el

InitDesmosPage ==
    /\ pc = "desmos"
    /\ dom \in [1..MaxContainers -> Containers]
    /\ net \in [desmos : {"pending", "ok"}]
    /\ timers = {}
    /\ locals = <<>> /\ settled = "none" /\ trace = <<>>
    /\ ParserIdle

\* init() reaches initDesmosGraphs: every container is rebuilt and its
\* tryInit called once
initDesmosGraphs ==
    /\ pc = "desmos"
    /\ pc' = "desmos_ready"
    /\ dom' = [c \in DOMAIN dom |-> tryInit([dom[c] EXCEPT !.built = TRUE])]
    /\ timers' = UNION {Retry(c) : c \in DOMAIN dom}
    /\ UNCHANGED <<net, locals, settled, trace, parserVars>>

\* the Desmos script has loaded
DesmosLoads ==
    /\ pc \in {"desmos", "desmos_ready"}
    /\ net.desmos = "pending"
    /\ net' = [net EXCEPT !.desmos = "ok"]
    /\ UNCHANGED <<pc, timers, dom, locals, settled, trace, parserVars>>

\* a tenth of a second passes; a timer that is due fires first
PollTick ==
    /\ pc = "desmos_ready"
    /\ timers # {}
    /\ \A t \in timers : t.left > 0
    /\ timers' = {[t EXCEPT !.left = @ - 1] : t \in timers}
    /\ UNCHANGED <<pc, net, dom, locals, settled, trace, parserVars>>

\* the timer of a container fires: tryInit again
PollFires ==
    /\ pc = "desmos_ready"
    /\ \E t \in timers :
         /\ t.left = 0
         /\ dom' = [dom EXCEPT ![t.c] =
                      tryInit([@ EXCEPT !.polls =
                                 IF @ < MaxPolls THEN @ + 1 ELSE @])]
         /\ timers' = (timers \ {t}) \cup Retry(t.c)
    /\ UNCHANGED <<pc, net, locals, settled, trace, parserVars>>

NextDesmos ==
    \/ initDesmosGraphs
    \/ DesmosLoads
    \/ PollTick
    \/ PollFires

\* time passes and a timer that is due fires; nothing makes the script load
SpecDesmos ==
    InitDesmosPage /\ [][NextDesmos]_vars
                   /\ WF_vars(PollTick) /\ WF_vars(PollFires)

-----------------------------------------------------------------------------
(* Properties of loadArticleRegistry, stated on SpecRegistry.              *)

\* the `files` list the call has read, empty before it has and when
\* articles.json has none
ListedFiles ==
    IF pc = "registry_meta" \/ net[0] # "ok" THEN <<>>
    ELSE IF locals.meta.files.given THEN locals.meta.files.list ELSE <<>>

\* C35: once articles.json is read, a fetch is under way or answered for
\* every file of its list at once; the call fulfils with the articles of
\* the files put end to end in the order of the list, whatever the order
\* the answers came in, and with no article when there is no list; when a
\* fetch has failed the call does not fulfil: it ends rejected, and a
\* rejected call carries no registry.
C35_RegistryInListOrder ==
    /\ pc = "registry_files" => DOMAIN net = 0..Len(ListedFiles)
    /\ settled.state = "fulfilled" =>
         /\ settled.articles =
              Concat([k \in 1..Len(ListedFiles) |-> FileContent(ListedFiles[k])])
         /\ ~locals.meta.files.given => settled.articles = <<>>
         /\ \A k \in DOMAIN net : net[k] = "ok"
    /\ (pc = "registry_done" /\ \E k \in DOMAIN net : net[k] = "failed") =>
         settled.state = "rejected"
    /\ settled.state = "rejected" => DOMAIN settled = {"state"}

\* three files answered in the reverse of their order in the list, and the
\* articles in the order of the list
C35_Witness ==
    /\ settled.state = "fulfilled"
    /\ ListedFiles = <<"b.json", "a.json", "c.json">>
    /\ trace = <<3, 2, 1>>
    /\ settled.articles = <<"b1", "a1", "a2">>

-----------------------------------------------------------------------------
(* Properties of init, stated on SpecPage.                                 *)

\* the places of the trace that hold one of the steps
PlacesOf(steps) ==
    {n \in 1..Len(trace) : \E k \in 1..Len(steps) : trace[n] = steps[k]}

\* C36: no call of init after loadWMDArticle (table of contents, scroll
\* spy, dropdowns, Desmos, citation links and the others) runs before
\* loadWMDArticle has returned, and on an article page with the parser
\* loaded not before the root holds the article or a message; no call of
\* init after the first await runs unless the three configuration files
\* have all arrived; a failed configuration fetch ends init with the error
\* logged and nothing built, and the promise of init is never rejected.
C36_InitOrdered ==
    /\ \A n \in PlacesOf(FinalSteps) :
         /\ \E m \in 1..(n - 1) : trace[m] = "loadWMDArticle returns"
         /\ (dom.root /\ dom.parser) =>
              /\ dom.rootHtml # "empty"
              /\ \E m \in 1..(n - 1) : trace[m] = "root.innerHTML"
    /\ PlacesOf(BuildSteps \o <<"loadWMDArticle called">> \o FinalSteps) # {} =>
         \A r \in ConfigFiles : net[r] = "ok"
    /\ (pc = "init_done" /\ \E r \in ConfigFiles : net[r] = "failed") =>
         trace = <<"console.error">>
    /\ settled.state \in {"pending", "fulfilled"}

\* init has ended on an article page: the article was injected, then the
\* table of contents was generated
C36_Witness ==
    /\ pc = "init_done"
    /\ dom.rootHtml = "article"
    /\ net["wmd"] = "ok"
    /\ trace = BuildSteps
                 \o <<"loadWMDArticle called", "root.innerHTML",
                      "loadWMDArticle returns">> \o FinalSteps

-----------------------------------------------------------------------------
(* Properties of the search page's debounce, stated on SpecSearch.         *)

\* the place of the last input event before place n of the trace, or 0
LastInputBefore(n) ==
    LET before == {m \in 1..(n - 1) : trace[m].ev = "input"}
    IN  IF before = {} THEN 0 ELSE CHOOSE m \in before : \A o \in before : o <= m

\* C37: every debounced update renders the value of the last input event
\* before it, 300 ms after that event, with no other input and no submit in
\* between; at most one update is pending, and it is the one of the last
\* event; what a submit renders is on the page the moment it has run, and
\* the update pending before it is gone.
C37_DebounceLastOnly ==
    pc = "search" =>
      /\ \A n \in 1..Len(trace) :
           trace[n].ev = "debounced" =>
             LET m == LastInputBefore(n)
             IN  /\ m > 0
                 /\ trace[m].val = trace[n].val
                 /\ trace[n].at = trace[m].at + DebounceDelay
                 /\ \A o \in (m + 1)..(n - 1) : trace[o].ev # "submit"
      /\ Cardinality(timers.pending) <= 1
      /\ \A t \in timers.pending :
           /\ trace # <<>>
           /\ trace[Len(trace)] =
                [ev |-> "input", val |-> t.val, at |-> t.due - DebounceDelay]
           /\ t.due >= timers.now
      /\ (trace # <<>> /\ trace[Len(trace)].ev = "submit") =>
           /\ timers.pending = {}
           /\ dom.results = renderResults(trace[Len(trace)].val)
           /\ dom.q = TrimQuery(trace[Len(trace)].val)
           /\ trace[Len(trace)].val = dom.value
      /\ (trace # <<>> /\ trace[Len(trace)].ev = "debounced") =>
           /\ dom.results = renderResults(trace[Len(trace)].val)
           /\ dom.q = TrimQuery(trace[Len(trace)].val)

\* a burst of two inputs whose last value alone is rendered, and an input
\* whose update a submit cancelled
C37_Witness ==
    /\ pc = "search"
    /\ Len(trace) = 4
    /\ trace[1] = [ev |-> "input", val |-> "a", at |-> 0]
    /\ trace[2] = [ev |-> "input", val |-> "B ", at |-> 2]
    /\ trace[3] = [ev |-> "debounced", val |-> "B ", at |-> 5]
    /\ trace[4].ev = "input" /\ trace[4].val = "a"
    /\ dom.results.query = "b"
    /\ timers.pending # {}

-----------------------------------------------------------------------------
(* Properties of initDropdowns, stated on SpecDropdowns.                   *)

\* C38: a dropdown the parser emitted starts without the open class; once
\* initDropdowns has run, whatever the clicks, the trigger of a dropdown
\* with a body says aria-expanded "true" exactly when the container has the
\* open class, and the container is open exactly when it started open and
\* was clicked an even number of times or started closed and was clicked
\* an odd number of times.
C38_AriaFollowsOpen ==
    /\ \A d \in DOMAIN dom :
         (pc = "dropdowns" /\ dom[d].origin = "parser") => ~dom[d].open
    /\ pc = "dropdowns_ready" =>
         \A d \in DOMAIN dom :
           (dom[d].trigger /\ dom[d].body) =>
             /\ dom[d].expanded \in {"true", "false"}
             /\ (dom[d].expanded = "true") <=> dom[d].open
             /\ dom[d].open = (dom[d].initially <=> (dom[d].clicks % 2 = 0))
             /\ dom[d].origin = "parser" =>
                  (dom[d].open <=> (dom[d].clicks % 2 = 1))

\* a parser's dropdown opened by one click beside a hand-written one that
\* started open and is back open after two
C38_Witness ==
    /\ pc = "dropdowns_ready"
    /\ dom[1].origin = "parser" /\ dom[1].clicks = 1
    /\ dom[1].open /\ dom[1].expanded = "true"
    /\ dom[2].origin = "static" /\ dom[2].initially /\ dom[2].body
    /\ dom[2].clicks = 2 /\ dom[2].open /\ dom[2].expanded = "true"

-----------------------------------------------------------------------------
(* Properties of initDesmosGraphs, stated on SpecDesmos.                   *)

\* the timers of container c
TimersOf(c) == {t \in timers : t.c = c}

\* C39: once initDesmosGraphs has run, a container has one timer of at most
\* 200 ms and no calculator while Desmos is undefined, however often it has
\* polled, and a poll that finds Desmos undefined sets the next one 200 ms
\* ahead; a container with a calculator has one calculator and no timer,
\* its expressions shown exactly when they are a list and its bounds set
\* exactly when they parse, whatever the other containers hold; and once
\* Desmos is defined every container gets its calculator.
C39_PollsUntilDefined ==
    /\ [](pc = "desmos_ready" =>
            \A c \in DOMAIN dom :
              /\ dom[c].calcs <= 1
              /\ ~DesmosDefined =>
                   /\ dom[c].calcs = 0
                   /\ Cardinality(TimersOf(c)) = 1
                   /\ \A t \in TimersOf(c) : t.left \in 0..PollDelay
              /\ dom[c].calcs = 1 =>
                   /\ TimersOf(c) = {}
                   /\ dom[c].shown = (dom[c].expressions = "list")
                   /\ dom[c].warned = (dom[c].expressions # "list")
                   /\ dom[c].bounded = (dom[c].bounds = "object")
              /\ (DesmosDefined /\ dom[c].calcs = 0) =>
                   Cardinality(TimersOf(c)) = 1)
    /\ [][\A c \in DOMAIN dom :
            (/\ pc = "desmos_ready"
             /\ ~DesmosDefined
             /\ [c |-> c, left |-> 0] \in timers
             /\ [c |-> c, left |-> 0] \notin timers')
            => [c |-> c, left |-> PollDelay] \in timers']_vars
    /\ \A c \in 1..MaxContainers :
         (pc = "desmos_ready" /\ DesmosDefined) ~> (dom[c].calcs = 1)

\* two containers that polled as often as is counted before Desmos loaded:
\* the one with unparsable expressions and bounds has its calculator and a
\* warning, the other its calculator, expressions and bounds
C39_Witness ==
    /\ pc = "desmos_ready"
    /\ DesmosDefined
    /\ dom[1].expressions = "no json" /\ dom[1].bounds = "no json"
    /\ dom[1].polls = MaxPolls /\ dom[1].calcs = 1
    /\ dom[1].warned /\ ~dom[1].shown /\ ~dom[1].bounded
    /\ dom[2].expressions = "list" /\ dom[2].bounds = "object"
    /\ dom[2].polls = MaxPolls /\ dom[2].calcs = 1
    /\ dom[2].shown /\ dom[2].bounded /\ ~dom[2].warned
    /\ timers = {}

=============================================================================
